---- MODULE Spec2Model ----
(***************************************************************************)
(* Page discovery and fetching of wit (src/src/wit/discovery.py,           *)
(* src/src/wit/scraper.py, src/src/wit/utils.py).                          *)
(*                                                                         *)
(* Strings are modelled by their structure.  A path or a glob pattern is   *)
(* the sequence of its characters.  An href is a record                    *)
(*   [form, netloc, path, frag]                                            *)
(* whose form is the shape normalize_url and the crawl loop branch on:     *)
(*   "rooted"   "/a"                 one leading slash                      *)
(*   "netpath"  "//other.com/"       two leading slashes                    *)
(*   "abs"      "https://other.com/" starts with http:// or https://        *)
(*   "rel"      "a"                  relative, no leading slash             *)
(*   "fragment" "#top"                                                      *)
(*   "script"   "javascript:x", "mailto:x", "tel:x"                         *)
(*   "opaque"   "data:x", "sms:1"    another scheme, no authority           *)
(*   "bad"      "http://[bad"        urlparse raises ValueError on it       *)
(* An absolute URL (what normalize_url returns) is [netloc, path, frag];   *)
(* the scheme of base_url is fixed.                                        *)
(***************************************************************************)
EXTENDS Integers, Sequences, FiniteSets, TLC

VARIABLES
    \* ---- discover_from_crawl: parameters
    start, max_depth, max_pages, include, exclude,
    \* ---- discover_from_crawl: locals
    queue, visited, discovered, c_pc, result,
    \* ---- discover_from_crawl: the site crawled and what happened (history)
    web, raised, fetched, discDepth,
    \* ---- discover_from_crawl: scraping_config "delay", whether fetch_func
    \* is supplied, and the sleeps made before each fetch (history)
    delay, c_fetch_func, slept,
    \* ---- an earlier run of discover_from_crawl on the same site: its result
    \* and what each fetch answered (history)
    prev,
    \* ---- _fetch_static: parameter, the server's answers, locals, history
    f_retries, f_script, f_attempt, f_last_error, f_pc, f_outcome, f_log,
    \* ---- fetch_page / _fetch_html: which entry point, the fetch_func
    \* argument, config "javascript", the calls made to fetch_func (history)
    p_entry, p_fetch_func, p_javascript, p_calls,
    \* ---- _fetch_with_javascript: is playwright importable, browsers open
    j_installed, j_open,
    \* ---- cli._scrape_site: what discovery gives (an exception or the URL
    \* list), whether the site asks for rendering without playwright, locals,
    \* and what the loop did (history)
    s_discovery, s_missing, s_i, scraped_count, changed_count, failed_count,
    s_pc, s_log,
    \* ---- discover_pages_for_site: site.pages, the sitemaps the site serves,
    \* the set urls, position, discover_from_urls' loop index and result set,
    \* the returned list, and what happened (history): what each strategy
    \* returned, the fetches of the URL-list and sitemap strategies, and per
    \* URL-list entry whether its parent page was fetched (u_fetch)
    pages, sm_web, urls, d_pc, d_k, u_result, u_fetch, d_result, d_yield, d_fetches,
    \* ---- strip_tracking_params: the URL given to the first call, and what
    \* each call returned, every call after the first taking what the call
    \* before it returned (history)
    t_url, t_outs

crawlVars == <<start, max_depth, max_pages, include, exclude,
               queue, visited, discovered, c_pc, result,
               web, raised, fetched, discDepth, delay, c_fetch_func, slept,
               prev>>

fetchVars == <<f_retries, f_script, f_attempt, f_last_error, f_pc,
               f_outcome, f_log>>

pageVars == <<p_entry, p_fetch_func, p_javascript, p_calls, j_installed, j_open>>

scrapeVars == <<s_discovery, s_missing, s_i, scraped_count, changed_count,
                failed_count, s_pc, s_log>>

discoverVars == <<pages, sm_web, urls, d_pc, d_k, u_result, u_fetch, d_result, d_yield,
                  d_fetches>>

stripVars == <<t_url, t_outs>>

vars == <<crawlVars, fetchVars, pageVars, scrapeVars, discoverVars, stripVars>>

\* what a step of the crawl leaves alone, and what a step of a fetch does
notCrawl == <<fetchVars, pageVars, scrapeVars, discoverVars, stripVars>>
notFetch == <<crawlVars, pageVars, scrapeVars, discoverVars, stripVars>>
notDiscover == <<fetchVars, pageVars, scrapeVars, stripVars>>

(***************************************************************************)
(* Bounds of the model.                                                    *)
(***************************************************************************)
MaxDepthBound == 2
MaxPagesBound == 3
MaxRetries == 3
MaxUrls == 3
MaxDelay == 2
RecursionLimit == 3

\* delay = scraping_config.get("delay", 1.0)
DefaultDelay == 1

(***************************************************************************)
(* Helpers.                                                                *)
(***************************************************************************)
Range(s) == {s[i] : i \in 1..Len(s)}

SetMax(S) == CHOOSE x \in S : \A y \in S : y <= x

(***************************************************************************)
(* URLs, hrefs, paths, patterns.                                           *)
(***************************************************************************)
BaseNetloc == "example.com"
OtherNetloc == "other.com"
BadNetloc == "[bad"

\* base_url = "https://example.com": an origin, no path, no trailing slash
base_url == [netloc |-> BaseNetloc, path |-> <<>>, frag |-> ""]

RootPath == <<"/">>
APath == <<"/", "a">>
ABPath == <<"/", "a", "/", "b">>

HRoot == [form |-> "rooted", netloc |-> "", path |-> RootPath, frag |-> ""]
HA == [form |-> "rooted", netloc |-> "", path |-> APath, frag |-> ""]
HAB == [form |-> "rooted", netloc |-> "", path |-> ABPath, frag |-> ""]
HRelA == [form |-> "rel", netloc |-> "", path |-> <<"a">>, frag |-> ""]
HExt == [form |-> "abs", netloc |-> OtherNetloc, path |-> RootPath, frag |-> ""]
HNet == [form |-> "netpath", netloc |-> OtherNetloc, path |-> APath, frag |-> ""]
HFrag == [form |-> "fragment", netloc |-> "", path |-> <<>>, frag |-> "top"]
HScript == [form |-> "script", netloc |-> "", path |-> <<"x">>, frag |-> ""]
HData == [form |-> "opaque", netloc |-> "", path |-> <<"x">>, frag |-> ""]
HBad == [form |-> "bad", netloc |-> BadNetloc, path |-> <<>>, frag |-> ""]

\* url.startswith("/")
StartsWithSlash(url) == url.form \in {"rooted", "netpath"}

\* url.startswith(("http://", "https://"))
StartsWithHttp(url) == url.form \in {"abs", "bad"}

\* href.startswith(("#", "javascript:", "mailto:", "tel:"))
StartsWithSkipped(href) == href.form \in {"fragment", "script"}

\* the directory of a base path: everything up to its last "/"
DirOf(p) ==
    LET slashes == {i \in 1..Len(p) : p[i] = "/"}
    IN  IF slashes = {} THEN <<"/">> ELSE SubSeq(p, 1, SetMax(slashes))

\* urllib.parse.urljoin(base, ref), RFC 3986 resolution, by the form of ref
urljoin(base, ref) ==
    CASE ref.form = "rooted" ->
            [netloc |-> base.netloc, path |-> ref.path, frag |-> ref.frag]
      [] ref.form = "netpath" ->
            [netloc |-> ref.netloc, path |-> ref.path, frag |-> ref.frag]
      [] ref.form = "rel" ->
            [netloc |-> base.netloc, path |-> DirOf(base.path) \o ref.path,
             frag |-> ref.frag]
      [] ref.form = "fragment" ->
            [netloc |-> base.netloc, path |-> base.path, frag |-> ref.frag]
      [] OTHER ->
            [netloc |-> ref.netloc, path |-> ref.path, frag |-> ref.frag]

\* base_url + "/"
WithSlash(base) == [base EXCEPT !.path = base.path \o <<"/">>]

normalize_url(url, base) ==
    IF StartsWithSlash(url) THEN urljoin(base, url)
    ELSE IF StartsWithHttp(url)
         THEN [netloc |-> url.netloc, path |-> url.path, frag |-> url.frag]
         ELSE urljoin(WithSlash(base), url)

\* urlparse(url) raises ValueError ("Invalid IPv6 URL")
UrlparseRaises(url) == url.netloc = BadNetloc

is_same_domain(url, base) ==
    url.netloc = base.netloc \/ url.netloc = ""

\* re.match("^" + re.escape(pattern).replace("\*", ".*") + "$", path):
\* "*" matches any run of characters, "/" included; the match is anchored.
\* (No path of the model holds a newline.)
RECURSIVE matches_pattern(_, _)
matches_pattern(path, pattern) ==
    IF pattern = <<>> THEN path = <<>>
    ELSE IF Head(pattern) = "*"
         THEN \/ matches_pattern(path, Tail(pattern))
              \/ path # <<>> /\ matches_pattern(Tail(path), pattern)
         ELSE /\ path # <<>>
              /\ Head(path) = Head(pattern)
              /\ matches_pattern(Tail(path), Tail(pattern))

_should_include_url_IncludeFirst(path, inc, exc) ==
    IF inc # <<>> /\ \E i \in 1..Len(inc) : matches_pattern(path, inc[i]) THEN TRUE
    ELSE IF \E i \in 1..Len(exc) : matches_pattern(path, exc[i]) THEN FALSE
    ELSE inc = <<>>

_should_include_url(path, inc, exc) ==
    IF \E i \in 1..Len(exc) : matches_pattern(path, exc[i]) THEN FALSE
    ELSE IF inc = <<>> THEN TRUE
    ELSE \E i \in 1..Len(inc) : matches_pattern(path, inc[i])

(***************************************************************************)
(* The inputs of a crawl.                                                  *)
(***************************************************************************)
PRoot == <<"/">>
PAStar == <<"/", "a", "*">>
PASlashStar == <<"/", "a", "/", "*">>

StartValues == {HRoot, HA, HExt}

FilterConfigs ==
    { [include |-> <<>>, exclude |-> <<>>],
      [include |-> <<PRoot, PASlashStar>>, exclude |-> <<>>],
      [include |-> <<>>, exclude |-> <<PASlashStar>>],
      [include |-> <<PRoot, PAStar>>, exclude |-> <<PASlashStar>>] }

\* what a page of the site holds: its anchors' hrefs in document order
Docs ==
    { <<>>,
      <<HA>>,
      <<HAB>>,
      <<HA, HAB>>,
      <<HAB, HA>>,
      <<HA, HRelA>>,
      <<HAB, HRoot>>,
      <<HFrag, HExt, HScript, HAB>>,
      <<HNet, HData>>,
      <<HA, HBad, HAB>> }

(***************************************************************************)
(* discover_from_crawl                                                     *)
(***************************************************************************)
start_url == normalize_url(start, base_url)

LoopCond_OffByOne == queue # <<>> /\ Len(discovered) <= max_pages

\* while queue and len(discovered) < max_pages
LoopCond == queue # <<>> /\ Len(discovered) < max_pages

AlreadyVisited_Never(url) == FALSE

\* if url in visited
AlreadyVisited(url) == url \in visited

AtMaxDepth_Strict(depth) == depth > max_depth

\* if depth >= max_depth: continue
AtMaxDepth(depth) == depth >= max_depth

\* is_same_domain(full_url, base_url) and full_url not in visited
ShouldEnqueue(full_url, vis) ==
    is_same_domain(full_url, base_url) /\ full_url \notin vis

\* the for loop over soup.find_all("a", href=True): the entries it appends
\* to the queue, in order; a ValueError from urlparse leaves the loop with
\* the entries appended so far
RECURSIVE EnqueueLinks(_, _, _)
EnqueueLinks(links, depth, vis) ==
    IF links = <<>> THEN <<>>
    ELSE LET href == Head(links)
             full_url == normalize_url(href, base_url)
         IN  IF StartsWithSkipped(href) THEN EnqueueLinks(Tail(links), depth, vis)
             ELSE IF UrlparseRaises(full_url) THEN <<>>
             ELSE IF ShouldEnqueue(full_url, vis)
                  THEN <<[url |-> full_url, depth |-> depth + 1]>>
                         \o EnqueueLinks(Tail(links), depth, vis)
                  ELSE EnqueueLinks(Tail(links), depth, vis)

\* the for loop raises (is_same_domain on a URL urlparse rejects)
LinksRaise(links) ==
    \E i \in 1..Len(links) :
        /\ ~StartsWithSkipped(links[i])
        /\ UrlparseRaises(normalize_url(links[i], base_url))

QueueAppend_Front(q, entries) == entries \o q

\* queue.append(...), once per entry: the deque is used first in, first out
QueueAppend(q, entries) == q \o entries

\* what the try block can raise: "fetch" a requests exception or an HTTPError
\* of raise_for_status (or whatever fetch_func raises), "parse" an error of
\* BeautifulSoup, "links" the ValueError of urlparse in the link loop
RaiseKinds == {"fetch", "parse", "links"}

ExceptCatches_RequestsOnly(kind) == kind = "fetch"

\* except Exception as e: every kind above is an Exception
ExceptCatches(kind) == kind \in RaiseKinds

\* no earlier run
NoRun == [runs |-> 0, result |-> <<>>, answers |-> <<>>]

\* the site answers a fetch of url as it did in the earlier run: "ok" with
\* its page, or the exception of that kind
Answers(url, kind) ==
    IF url \in DOMAIN prev.answers THEN prev.answers[url] = kind ELSE TRUE

Reveal(u, doc) ==
    web' = [x \in DOMAIN web \cup {u} |-> IF x = u THEN doc ELSE web[x]]

Raise(u, kind) ==
    raised' = [x \in DOMAIN raised \cup {u} |-> IF x = u THEN kind ELSE raised[x]]

\* no fetch is running
NoError == [kind |-> "None", attempt |-> 0 - 1]

NoOutcome == [kind |-> "none", attempt |-> 0 - 1, cause |-> NoError]

FetchIdle ==
    /\ f_retries = 0
    /\ f_script = <<>>
    /\ f_attempt = 0
    /\ f_last_error = NoError
    /\ f_pc = "idle"
    /\ f_outcome = NoOutcome
    /\ f_log = <<>>

\* no call of fetch_page or _fetch_html is running
PageIdle ==
    /\ p_entry = "idle"
    /\ p_fetch_func = "None"
    /\ p_javascript = FALSE
    /\ p_calls = <<>>
    /\ j_installed = FALSE
    /\ j_open = {}

\* strip_tracking_params has not been called
StripIdle ==
    /\ t_url = <<>>
    /\ t_outs = <<>>

\* no site is being scraped
ScrapeIdle ==
    /\ s_discovery = [raises |-> FALSE, urls |-> <<>>]
    /\ s_missing = FALSE
    /\ s_i = 0
    /\ scraped_count = 0
    /\ changed_count = 0
    /\ failed_count = 0
    /\ s_pc = "idle"
    /\ s_log = <<>>

Absent == [present |-> FALSE, value |-> <<>>]

NoYield == [urls |-> {}, sitemap |-> <<>>, crawl |-> <<>>]

\* no discovery is running
DiscoverIdle ==
    /\ pages = [urls |-> Absent, sitemap |-> Absent, crawl |-> Absent]
    /\ sm_web = <<>>
    /\ urls = {}
    /\ d_pc = "idle"
    /\ d_k = 0
    /\ u_result = {}
    /\ u_fetch = <<>>
    /\ d_result = <<>>
    /\ d_yield = NoYield
    /\ d_fetches = <<>>

\* no crawl is running
CrawlIdle ==
    /\ start = HRoot
    /\ max_depth = 0
    /\ max_pages = 0
    /\ include = <<>>
    /\ exclude = <<>>
    /\ queue = <<>>
    /\ visited = {}
    /\ discovered = <<>>
    /\ c_pc = "idle"
    /\ result = <<>>
    /\ web = <<>>
    /\ raised = <<>>
    /\ fetched = <<>>
    /\ discDepth = <<>>
    /\ delay = DefaultDelay
    /\ c_fetch_func = FALSE
    /\ prev = NoRun
    /\ slept = <<>>

CrawlInit ==
    /\ FetchIdle
    /\ PageIdle
    /\ ScrapeIdle /\ StripIdle
    /\ DiscoverIdle
    /\ start \in StartValues
    /\ max_depth \in 0..MaxDepthBound
    /\ max_pages \in 0..MaxPagesBound
    /\ \E f \in FilterConfigs : include = f.include /\ exclude = f.exclude
    /\ queue = <<[url |-> start_url, depth |-> 0]>>
    /\ visited = {}
    /\ discovered = <<>>
    /\ c_pc = "loop"
    /\ result = <<>>
    /\ web = <<>>
    /\ raised = <<>>
    /\ fetched = <<>>
    /\ discDepth = <<>>
    /\ delay = DefaultDelay
    /\ c_fetch_func = FALSE
    /\ prev = NoRun
    /\ slept = <<>>

\* if url in visited: continue
CrawlSkipVisited ==
    /\ c_pc = "loop" /\ LoopCond
    /\ AlreadyVisited(Head(queue).url)
    /\ queue' = Tail(queue)
    /\ UNCHANGED <<notCrawl, start, max_depth, max_pages, include, exclude, visited,
                   discovered, c_pc, result, web, raised, fetched, discDepth,
                   delay, c_fetch_func, slept, prev>>

\* if not _should_include_url(path, include, exclude): continue
\* (web: the page exists on the site although the crawl never reads it)
CrawlSkipExcluded ==
    /\ c_pc = "loop" /\ LoopCond
    /\ LET url == Head(queue).url
           depth == Head(queue).depth
       IN  /\ ~AlreadyVisited(url)
           /\ ~_should_include_url(url.path, include, exclude)
           /\ visited' = visited \cup {url}
           /\ queue' = Tail(queue)
           /\ IF depth < max_depth /\ url \notin DOMAIN web
              THEN \E doc \in Docs : Reveal(url, doc)
              ELSE UNCHANGED web
    /\ UNCHANGED <<notCrawl, start, max_depth, max_pages, include, exclude,
                   discovered, c_pc, result, raised, fetched, discDepth,
                   delay, c_fetch_func, slept, prev>>

\* discovered.append(url); if depth >= max_depth: continue
CrawlAtMaxDepth ==
    /\ c_pc = "loop" /\ LoopCond
    /\ LET url == Head(queue).url
           depth == Head(queue).depth
       IN  /\ ~AlreadyVisited(url)
           /\ _should_include_url(url.path, include, exclude)
           /\ AtMaxDepth(depth)
           /\ visited' = visited \cup {url}
           /\ discovered' = Append(discovered, url)
           /\ discDepth' = Append(discDepth, depth)
           /\ queue' = Tail(queue)
    /\ UNCHANGED <<notCrawl, start, max_depth, max_pages, include, exclude,
                   c_pc, result, web, raised, fetched, delay, c_fetch_func, slept,
                   prev>>

SleepsBefore_Always(nvisited, override) == TRUE

\* if len(visited) > 1: time.sleep(delay)
SleepsBefore(nvisited, override) == nvisited > 1

\* the sleeps made between visited.add(url) and _fetch_html(url, ...)
Sleeps(nvisited) ==
    IF SleepsBefore(nvisited, c_fetch_func) THEN <<delay>> ELSE <<>>

\* the page a fetch of url returns: the site serves one document per URL
Served(url) == IF url \in DOMAIN web THEN {web[url]} ELSE Docs

\* discovered.append(url); the page is fetched and parsed, its links enqueued
CrawlExpand ==
    /\ c_pc = "loop" /\ LoopCond
    /\ LET url == Head(queue).url
           depth == Head(queue).depth
       IN  /\ ~AlreadyVisited(url)
           /\ _should_include_url(url.path, include, exclude)
           /\ ~AtMaxDepth(depth)
           /\ Answers(url, "ok")
           /\ visited' = visited \cup {url}
           /\ discovered' = Append(discovered, url)
           /\ discDepth' = Append(discDepth, depth)
           /\ fetched' = Append(fetched, [url |-> url, depth |-> depth])
           /\ slept' = Append(slept, Sleeps(Cardinality(visited')))
           /\ \E doc \in Served(url) :
                /\ Reveal(url, doc)
                /\ queue' = QueueAppend(Tail(queue),
                                        EnqueueLinks(doc, depth, visited'))
                /\ IF LinksRaise(doc)
                   THEN /\ Raise(url, "links")
                        /\ c_pc' = IF ExceptCatches("links") THEN "loop"
                                   ELSE "raised"
                   ELSE UNCHANGED <<raised, c_pc>>
    /\ UNCHANGED <<notCrawl, start, max_depth, max_pages, include, exclude, result,
                   delay, c_fetch_func, prev>>

\* discovered.append(url); _fetch_html or BeautifulSoup raises
CrawlFetchRaises ==
    /\ c_pc = "loop" /\ LoopCond
    /\ LET url == Head(queue).url
           depth == Head(queue).depth
       IN  /\ ~AlreadyVisited(url)
           /\ _should_include_url(url.path, include, exclude)
           /\ ~AtMaxDepth(depth)
           /\ visited' = visited \cup {url}
           /\ discovered' = Append(discovered, url)
           /\ discDepth' = Append(discDepth, depth)
           /\ fetched' = Append(fetched, [url |-> url, depth |-> depth])
           /\ slept' = Append(slept, Sleeps(Cardinality(visited')))
           /\ \E doc \in Served(url) : Reveal(url, doc)
           /\ \E kind \in {"fetch", "parse"} :
                /\ Answers(url, kind)
                /\ Raise(url, kind)
                /\ c_pc' = IF ExceptCatches(kind) THEN "loop" ELSE "raised"
           /\ queue' = Tail(queue)
    /\ UNCHANGED <<notCrawl, start, max_depth, max_pages, include, exclude, result,
                   delay, c_fetch_func, prev>>

\* return discovered
CrawlReturn ==
    /\ c_pc = "loop" /\ ~LoopCond
    /\ c_pc' = "done"
    /\ result' = discovered
    /\ UNCHANGED <<notCrawl, start, max_depth, max_pages, include, exclude, queue,
                   visited, discovered, web, raised, fetched, discDepth,
                   delay, c_fetch_func, slept, prev>>

CrawlNext ==
    \/ CrawlSkipVisited
    \/ CrawlSkipExcluded
    \/ CrawlAtMaxDepth
    \/ CrawlExpand
    \/ CrawlFetchRaises
    \/ CrawlReturn

SpecCrawl == CrawlInit /\ [][CrawlNext]_vars

\* discover_from_crawl is a sequential function and every fetch and sleep it
\* makes ends: it keeps taking steps until it returns
SpecCrawlLive == SpecCrawl /\ WF_vars(CrawlNext)

Fresh_Kept(old) == old

\* visited = set()
Fresh(old) == {}

\* what each fetch of the run answered
AnswersOf(log, exc) ==
    [u \in {log[i].url : i \in 1..Len(log)} |->
        IF u \in DOMAIN exc /\ exc[u] \in {"fetch", "parse"} THEN exc[u] ELSE "ok"]

\* discover_from_crawl is called again with the same arguments on the same
\* site: queue = deque([(start_url, 0)]); visited = set(); discovered = []
CrawlAgain ==
    /\ c_pc = "done" /\ prev.runs = 0
    /\ prev' = [runs |-> 1, result |-> result, answers |-> AnswersOf(fetched, raised)]
    /\ queue' = <<[url |-> start_url, depth |-> 0]>>
    /\ visited' = Fresh(visited)
    /\ discovered' = <<>>
    /\ c_pc' = "loop"
    /\ result' = <<>>
    /\ raised' = <<>>
    /\ fetched' = <<>>
    /\ discDepth' = <<>>
    /\ slept' = <<>>
    /\ UNCHANGED <<notCrawl, start, max_depth, max_pages, include, exclude, web,
                   delay, c_fetch_func>>

TwiceNext == CrawlNext \/ CrawlAgain

SpecCrawlTwice == CrawlInit /\ [][TwiceNext]_vars

\* the crawl with any configured delay, with and without fetch_func, at the
\* largest depth and page budget
DelayValues == 1..MaxDelay

DelayInit ==
    /\ FetchIdle
    /\ PageIdle
    /\ ScrapeIdle /\ StripIdle
    /\ DiscoverIdle
    /\ start \in StartValues
    /\ max_depth = MaxDepthBound
    /\ max_pages = MaxPagesBound
    /\ \E f \in FilterConfigs : include = f.include /\ exclude = f.exclude
    /\ queue = <<[url |-> start_url, depth |-> 0]>>
    /\ visited = {}
    /\ discovered = <<>>
    /\ c_pc = "loop"
    /\ result = <<>>
    /\ web = <<>>
    /\ raised = <<>>
    /\ fetched = <<>>
    /\ discDepth = <<>>
    /\ delay \in DelayValues
    /\ c_fetch_func \in BOOLEAN
    /\ prev = NoRun
    /\ slept = <<>>

SpecCrawlDelay == DelayInit /\ [][CrawlNext]_vars

(***************************************************************************)
(* _fetch_static(url, timeout, user_agent, retries)                        *)
(*                                                                         *)
(* f_script is what the server answers, request after request; a response  *)
(* is [kind, header]: kind "200", "429", "500", "404", "403", or the       *)
(* exception requests.get raises ("timeout", "connerr"); header is the     *)
(* Retry-After header.  f_log is the sequence of requests and sleeps.      *)
(***************************************************************************)
DefaultRetryAfter == 60
RetryAfterSecs == 7

NoHeader == [present |-> FALSE, numeric |-> FALSE, value |-> 0]
SecsHeader == [present |-> TRUE, numeric |-> TRUE, value |-> RetryAfterSecs]
DateHeader == [present |-> TRUE, numeric |-> FALSE, value |-> 0]

Responses ==
    { [kind |-> "200", header |-> NoHeader],
      [kind |-> "429", header |-> NoHeader],
      [kind |-> "429", header |-> SecsHeader],
      [kind |-> "429", header |-> DateHeader],
      [kind |-> "500", header |-> NoHeader],
      [kind |-> "404", header |-> NoHeader],
      [kind |-> "403", header |-> NoHeader],
      [kind |-> "timeout", header |-> NoHeader],
      [kind |-> "connerr", header |-> NoHeader] }

\* int(...) raises ValueError: the header is there and is no number
RetryAfterRaises(resp) == resp.header.present /\ ~resp.header.numeric

\* int(response.headers.get("Retry-After", 60))
RetryAfter(resp) ==
    IF resp.header.present THEN resp.header.value ELSE DefaultRetryAfter

BackoffWait_Linear(attempt) == 2 * attempt

\* wait_time = 2 ** attempt
BackoffWait(attempt) == 2 ^ attempt

\* if attempt < retries - 1 (the RequestException handler only)
AttemptsRemain(attempt) == attempt < f_retries - 1

LastErrorAfter_KeepFirst(old, e) == IF old = NoError THEN e ELSE old

\* last_error = e
LastErrorAfter(old, e) == e

Request(attempt, kind) ==
    [ev |-> "request", attempt |-> attempt, what |-> kind, secs |-> 0]

Sleep(attempt, secs) ==
    [ev |-> "sleep", attempt |-> attempt, what |-> "", secs |-> secs]

\* the response to the request this iteration issues
Response == f_script[f_attempt + 1]

InLoop_OneMore == f_pc = "attempt" /\ f_attempt <= f_retries /\ f_attempt < MaxRetries

\* for attempt in range(retries): one more iteration
InLoop == f_pc = "attempt" /\ f_attempt < f_retries

FetchInit ==
    /\ CrawlIdle
    /\ PageIdle
    /\ ScrapeIdle /\ StripIdle
    /\ DiscoverIdle
    /\ f_retries \in 0..MaxRetries
    /\ f_script \in [1..MaxRetries -> Responses]
    /\ f_attempt = 0
    /\ f_last_error = NoError
    /\ f_pc = "attempt"
    /\ f_outcome = NoOutcome
    /\ f_log = <<>>

\* return response.text
FetchOk ==
    /\ InLoop /\ Response.kind = "200"
    /\ f_log' = Append(f_log, Request(f_attempt, "200"))
    /\ f_outcome' = [kind |-> "returned", attempt |-> f_attempt, cause |-> NoError]
    /\ f_pc' = "done"
    /\ UNCHANGED <<notFetch, f_retries, f_script, f_attempt, f_last_error>>

\* if response.status_code == 429: sleep(retry_after); continue
FetchRateLimited ==
    /\ InLoop /\ Response.kind = "429" /\ ~RetryAfterRaises(Response)
    /\ f_log' = f_log \o <<Request(f_attempt, "429"),
                           Sleep(f_attempt, RetryAfter(Response))>>
    /\ f_attempt' = f_attempt + 1
    /\ UNCHANGED <<notFetch, f_retries, f_script, f_last_error, f_pc, f_outcome>>

\* if response.status_code == 429: int(...) raises ValueError, caught nowhere
FetchRateLimitedBadHeader ==
    /\ InLoop /\ Response.kind = "429" /\ RetryAfterRaises(Response)
    /\ f_log' = Append(f_log, Request(f_attempt, "429"))
    /\ f_outcome' = [kind |-> "ValueError", attempt |-> f_attempt, cause |-> NoError]
    /\ f_pc' = "done"
    /\ UNCHANGED <<notFetch, f_retries, f_script, f_attempt, f_last_error>>

\* if response.status_code >= 500: sleep(2 ** attempt); continue
FetchServerError ==
    /\ InLoop /\ Response.kind = "500"
    /\ f_log' = f_log \o <<Request(f_attempt, "500"),
                           Sleep(f_attempt, BackoffWait(f_attempt))>>
    /\ f_attempt' = f_attempt + 1
    /\ UNCHANGED <<notFetch, f_retries, f_script, f_last_error, f_pc, f_outcome>>

HandlersCatch_Exception(exc) == TRUE

\* except requests.exceptions.Timeout, except requests.exceptions.RequestException:
\* the exceptions of requests; ScrapingError is none of them
HandlersCatch(exc) == exc \in {"Timeout", "ConnectionError", "HTTPError"}

\* if response.status_code == 404: raise ScrapingError, inside the try
FetchNotFound ==
    /\ InLoop /\ Response.kind = "404"
    /\ IF HandlersCatch("ScrapingError")
       THEN /\ f_last_error' = LastErrorAfter(f_last_error,
                                      [kind |-> "404", attempt |-> f_attempt])
            /\ f_log' = IF AttemptsRemain(f_attempt)
                        THEN f_log \o <<Request(f_attempt, "404"),
                                        Sleep(f_attempt, BackoffWait(f_attempt))>>
                        ELSE Append(f_log, Request(f_attempt, "404"))
            /\ f_attempt' = f_attempt + 1
            /\ UNCHANGED <<f_pc, f_outcome>>
       ELSE /\ f_log' = Append(f_log, Request(f_attempt, "404"))
            /\ f_outcome' = [kind |-> "ScrapingError: Page not found",
                             attempt |-> f_attempt, cause |-> NoError]
            /\ f_pc' = "done"
            /\ UNCHANGED <<f_attempt, f_last_error>>
    /\ UNCHANGED <<notFetch, f_retries, f_script>>

\* response.raise_for_status() raises HTTPError, a RequestException
FetchClientError ==
    /\ InLoop /\ Response.kind = "403"
    /\ f_last_error' = LastErrorAfter(f_last_error,
                                      [kind |-> "403", attempt |-> f_attempt])
    /\ f_log' = IF AttemptsRemain(f_attempt)
                THEN f_log \o <<Request(f_attempt, "403"),
                                Sleep(f_attempt, BackoffWait(f_attempt))>>
                ELSE Append(f_log, Request(f_attempt, "403"))
    /\ f_attempt' = f_attempt + 1
    /\ UNCHANGED <<notFetch, f_retries, f_script, f_pc, f_outcome>>

\* except requests.exceptions.Timeout
FetchTimeout ==
    /\ InLoop /\ Response.kind = "timeout"
    /\ f_last_error' = LastErrorAfter(f_last_error,
                                      [kind |-> "timeout", attempt |-> f_attempt])
    /\ f_log' = f_log \o <<Request(f_attempt, "timeout"),
                           Sleep(f_attempt, BackoffWait(f_attempt))>>
    /\ f_attempt' = f_attempt + 1
    /\ UNCHANGED <<notFetch, f_retries, f_script, f_pc, f_outcome>>

\* except requests.exceptions.RequestException (a connection error)
FetchConnectionError ==
    /\ InLoop /\ Response.kind = "connerr"
    /\ f_last_error' = LastErrorAfter(f_last_error,
                                      [kind |-> "connerr", attempt |-> f_attempt])
    /\ f_log' = IF AttemptsRemain(f_attempt)
                THEN f_log \o <<Request(f_attempt, "connerr"),
                                Sleep(f_attempt, BackoffWait(f_attempt))>>
                ELSE Append(f_log, Request(f_attempt, "connerr"))
    /\ f_attempt' = f_attempt + 1
    /\ UNCHANGED <<notFetch, f_retries, f_script, f_pc, f_outcome>>

\* raise ScrapingError(f"Failed to fetch {url} after {retries} attempts: {last_error}")
FetchExhausted ==
    /\ f_pc = "attempt" /\ ~(f_attempt < f_retries)
    /\ f_outcome' = [kind |-> "ScrapingError: Failed to fetch",
                     attempt |-> f_attempt, cause |-> f_last_error]
    /\ f_pc' = "done"
    /\ UNCHANGED <<notFetch, f_retries, f_script, f_attempt, f_last_error, f_log>>

FetchNext ==
    \/ FetchOk
    \/ FetchRateLimited
    \/ FetchRateLimitedBadHeader
    \/ FetchServerError
    \/ FetchNotFound
    \/ FetchClientError
    \/ FetchTimeout
    \/ FetchConnectionError
    \/ FetchExhausted

SpecFetch == FetchInit /\ [][FetchNext]_vars

(***************************************************************************)
(* fetch_page and _fetch_html: the fetch_func override, the choice of the  *)
(* backend, and the rendering backend _fetch_with_javascript.  The loop    *)
(* locals of the rendering backend (attempt, last_error) are the f_        *)
(* variables; f_script then lists what each rendering attempt runs into.   *)
(***************************************************************************)
\* what one rendering attempt runs into
JsOutcomes == {"ok", "goto_timeout", "launch_error", "new_page_error",
               "goto_error", "content_error"}

OkResponse == [kind |-> "200", header |-> NoHeader]

UsesOverride_Never(fetch_func) == FALSE

\* if fetch_func:
UsesOverride(fetch_func) == fetch_func # "None"

ImportRaises_Never(installed) == FALSE

\* from playwright.sync_api import ... raises ImportError
ImportRaises(installed) == ~installed

WithExit_Leak(open) == open

\* leaving "with sync_playwright() as p:" stops playwright and with it every
\* browser launched from p
WithExit(open) == {}

\* browser.close()
BrowserClose(open, b) == open \ {b}

Launch(attempt, kind) ==
    [ev |-> "launch", attempt |-> attempt, what |-> kind, secs |-> 0]

Call(f) == [ev |-> "call", attempt |-> 0, what |-> f, secs |-> 0]

\* the answers that matter to the path the call takes
ScriptsFor(entry, fetch_func, javascript, installed) ==
    IF fetch_func # "None" THEN {[i \in 1..MaxRetries |-> OkResponse]}
    ELSE IF entry = "_fetch_html"
    THEN {[i \in 1..MaxRetries |-> IF i = 1 THEN r ELSE OkResponse] : r \in Responses}
    ELSE IF ~javascript THEN [1..MaxRetries -> Responses]
    ELSE IF ~installed THEN {[i \in 1..MaxRetries |-> [kind |-> "ok"]]}
    ELSE [1..MaxRetries -> [kind : JsOutcomes]]

PageInit ==
    /\ CrawlIdle
    /\ ScrapeIdle /\ StripIdle
    /\ DiscoverIdle
    /\ p_entry \in {"fetch_page", "_fetch_html"}
    /\ p_fetch_func \in {"None", "returns", "raises"}
    /\ p_javascript \in BOOLEAN
    /\ j_installed \in BOOLEAN
    /\ f_retries \in 0..MaxRetries
    /\ f_script \in ScriptsFor(p_entry, p_fetch_func, p_javascript, j_installed)
    /\ f_attempt = 0
    /\ f_last_error = NoError
    /\ f_pc = "dispatch"
    /\ f_outcome = NoOutcome
    /\ f_log = <<>>
    /\ p_calls = <<>>
    /\ j_open = {}

\* fetch_page: if fetch_func: return fetch_func(url)
PageOverride ==
    /\ f_pc = "dispatch" /\ p_entry = "fetch_page"
    /\ UsesOverride(p_fetch_func)
    /\ p_calls' = Append(p_calls, Call("fetch_func(url)"))
    /\ f_outcome' = [kind |-> IF p_fetch_func = "returns"
                              THEN "returned fetch_func result"
                              ELSE "fetch_func exception",
                     attempt |-> 0, cause |-> NoError]
    /\ f_pc' = "done"
    /\ UNCHANGED <<crawlVars, scrapeVars, discoverVars, stripVars, f_retries, f_script, f_attempt, f_last_error, f_log,
                   p_entry, p_fetch_func, p_javascript, j_installed, j_open>>

\* fetch_page: return _fetch_static(url, timeout, user_agent, retries)
PageStatic ==
    /\ f_pc = "dispatch" /\ p_entry = "fetch_page"
    /\ ~UsesOverride(p_fetch_func) /\ ~p_javascript
    /\ f_pc' = "attempt"
    /\ UNCHANGED <<crawlVars, scrapeVars, discoverVars, stripVars, pageVars, f_retries, f_script, f_attempt,
                   f_last_error, f_outcome, f_log>>

\* fetch_page: return _fetch_with_javascript(url, timeout, retries, wait_until)
PageJavascript ==
    /\ f_pc = "dispatch" /\ p_entry = "fetch_page"
    /\ ~UsesOverride(p_fetch_func) /\ p_javascript
    /\ f_pc' = "js_import"
    /\ UNCHANGED <<crawlVars, scrapeVars, discoverVars, stripVars, pageVars, f_retries, f_script, f_attempt,
                   f_last_error, f_outcome, f_log>>

\* _fetch_html: if fetch_func: return fetch_func(url)
HtmlOverride ==
    /\ f_pc = "dispatch" /\ p_entry = "_fetch_html"
    /\ UsesOverride(p_fetch_func)
    /\ p_calls' = Append(p_calls, Call("fetch_func(url)"))
    /\ f_outcome' = [kind |-> IF p_fetch_func = "returns"
                              THEN "returned fetch_func result"
                              ELSE "fetch_func exception",
                     attempt |-> 0, cause |-> NoError]
    /\ f_pc' = "done"
    /\ UNCHANGED <<crawlVars, scrapeVars, discoverVars, stripVars, f_retries, f_script, f_attempt, f_last_error, f_log,
                   p_entry, p_fetch_func, p_javascript, j_installed, j_open>>

\* _fetch_html: requests.get(...); response.raise_for_status(); return response.text
HtmlRequest ==
    /\ f_pc = "dispatch" /\ p_entry = "_fetch_html"
    /\ ~UsesOverride(p_fetch_func)
    /\ f_log' = Append(f_log, Request(0, f_script[1].kind))
    /\ f_outcome' = [kind |-> CASE f_script[1].kind = "200" -> "returned"
                                [] f_script[1].kind = "timeout" -> "Timeout"
                                [] f_script[1].kind = "connerr" -> "ConnectionError"
                                [] OTHER -> "HTTPError",
                     attempt |-> 0, cause |-> NoError]
    /\ f_pc' = "done"
    /\ UNCHANGED <<crawlVars, scrapeVars, discoverVars, stripVars, pageVars, f_retries, f_script, f_attempt, f_last_error>>

\* except ImportError: raise ScrapingError("JavaScript rendering requires playwright. ...")
JsImportError ==
    /\ f_pc = "js_import" /\ ImportRaises(j_installed)
    /\ f_outcome' = [kind |-> "ScrapingError: JavaScript rendering requires playwright",
                     attempt |-> 0 - 1, cause |-> NoError]
    /\ f_pc' = "done"
    /\ UNCHANGED <<crawlVars, scrapeVars, discoverVars, stripVars, pageVars, f_retries, f_script, f_attempt,
                   f_last_error, f_log>>

\* the import succeeds; last_error = None
JsImported ==
    /\ f_pc = "js_import" /\ ~ImportRaises(j_installed)
    /\ f_pc' = "js_attempt"
    /\ UNCHANGED <<crawlVars, scrapeVars, discoverVars, stripVars, pageVars, f_retries, f_script, f_attempt,
                   f_last_error, f_outcome, f_log>>

JsInLoop == f_pc = "js_attempt" /\ f_attempt < f_retries

\* with sync_playwright() as p: browser = p.chromium.launch(headless=True)
JsLaunch ==
    /\ JsInLoop /\ Response.kind # "launch_error"
    /\ j_open' = j_open \cup {f_attempt}
    /\ f_log' = Append(f_log, Launch(f_attempt, Response.kind))
    /\ f_pc' = "js_page"
    /\ UNCHANGED <<crawlVars, scrapeVars, discoverVars, stripVars, f_retries, f_script, f_attempt, f_last_error, f_outcome,
                   p_entry, p_fetch_func, p_javascript, p_calls, j_installed>>

\* launch raises: the with block is left, except Exception takes it
JsLaunchFails ==
    /\ JsInLoop /\ Response.kind = "launch_error"
    /\ j_open' = WithExit(j_open)
    /\ f_last_error' = LastErrorAfter(f_last_error,
                                      [kind |-> "launch_error", attempt |-> f_attempt])
    /\ f_log' = IF AttemptsRemain(f_attempt)
                THEN f_log \o <<Request(f_attempt, "launch_error"),
                                Sleep(f_attempt, BackoffWait(f_attempt))>>
                ELSE Append(f_log, Request(f_attempt, "launch_error"))
    /\ f_attempt' = f_attempt + 1
    /\ UNCHANGED <<crawlVars, scrapeVars, discoverVars, stripVars, f_retries, f_script, f_pc, f_outcome,
                   p_entry, p_fetch_func, p_javascript, p_calls, j_installed>>

\* new_page, goto, content succeed; browser.close(); return html
JsRendered ==
    /\ f_pc = "js_page" /\ Response.kind = "ok"
    /\ j_open' = WithExit(BrowserClose(j_open, f_attempt))
    /\ f_log' = Append(f_log, Request(f_attempt, "ok"))
    /\ f_outcome' = [kind |-> "returned", attempt |-> f_attempt, cause |-> NoError]
    /\ f_pc' = "done"
    /\ UNCHANGED <<crawlVars, scrapeVars, discoverVars, stripVars, f_retries, f_script, f_attempt, f_last_error,
                   p_entry, p_fetch_func, p_javascript, p_calls, j_installed>>

\* goto times out: the with block is left, except PlaywrightTimeout takes it
JsTimeout ==
    /\ f_pc = "js_page" /\ Response.kind = "goto_timeout"
    /\ j_open' = WithExit(j_open)
    /\ f_last_error' = LastErrorAfter(f_last_error,
                                      [kind |-> "goto_timeout", attempt |-> f_attempt])
    /\ f_log' = f_log \o <<Request(f_attempt, "goto_timeout"),
                           Sleep(f_attempt, BackoffWait(f_attempt))>>
    /\ f_attempt' = f_attempt + 1
    /\ f_pc' = "js_attempt"
    /\ UNCHANGED <<crawlVars, scrapeVars, discoverVars, stripVars, f_retries, f_script, f_outcome,
                   p_entry, p_fetch_func, p_javascript, p_calls, j_installed>>

\* new_page, goto or content raises: the with block is left, except Exception
JsError ==
    /\ f_pc = "js_page"
    /\ Response.kind \in {"new_page_error", "goto_error", "content_error"}
    /\ j_open' = WithExit(j_open)
    /\ f_last_error' = LastErrorAfter(f_last_error,
                                      [kind |-> Response.kind, attempt |-> f_attempt])
    /\ f_log' = IF AttemptsRemain(f_attempt)
                THEN f_log \o <<Request(f_attempt, Response.kind),
                                Sleep(f_attempt, BackoffWait(f_attempt))>>
                ELSE Append(f_log, Request(f_attempt, Response.kind))
    /\ f_attempt' = f_attempt + 1
    /\ f_pc' = "js_attempt"
    /\ UNCHANGED <<crawlVars, scrapeVars, discoverVars, stripVars, f_retries, f_script, f_outcome,
                   p_entry, p_fetch_func, p_javascript, p_calls, j_installed>>

\* raise ScrapingError(f"Failed to render {url} after {retries} attempts: {last_error}")
JsExhausted ==
    /\ f_pc = "js_attempt" /\ ~(f_attempt < f_retries)
    /\ f_outcome' = [kind |-> "ScrapingError: Failed to render",
                     attempt |-> f_attempt, cause |-> f_last_error]
    /\ f_pc' = "done"
    /\ UNCHANGED <<crawlVars, scrapeVars, discoverVars, stripVars, pageVars, f_retries, f_script, f_attempt,
                   f_last_error, f_log>>

PageNext ==
    \/ PageOverride
    \/ PageStatic
    \/ PageJavascript
    \/ HtmlOverride
    \/ HtmlRequest
    \/ JsImportError
    \/ JsImported
    \/ JsLaunch
    \/ JsLaunchFails
    \/ JsRendered
    \/ JsTimeout
    \/ JsError
    \/ JsExhausted
    \/ FetchNext

SpecPage == PageInit /\ [][PageNext]_vars

\* a backend is a sequential function and every request, navigation and
\* sleep it makes ends: it keeps taking steps until it returns or raises
SpecPageLive == SpecPage /\ WF_vars(PageNext)

(***************************************************************************)
(* cli._scrape_site: discover the site's pages, then fetch and convert     *)
(* them one by one.  A page is its index in the discovered list.  What     *)
(* fetch_page does for a page is one of the outcomes of the fetch model    *)
(* above: it returns, or raises an exception of some class.                *)
(***************************************************************************)
PageNotFound ==
    [class |-> "ScrapingError", msg |-> "Page not found"]
FetchExhaustedError ==
    [class |-> "ScrapingError", msg |-> "Failed to fetch"]
RenderingMissingError ==
    [class |-> "ScrapingError", msg |-> "JavaScript rendering requires playwright"]
RetryAfterValueError ==
    [class |-> "ValueError", msg |-> "invalid literal for int()"]
Returned == [class |-> "None", msg |-> "html"]

\* what fetch_page(url, site.scraping) can do for one page of the site: with
\* rendering configured and playwright absent every call fails the same way
FetchPageResults(missing) ==
    IF missing THEN {RenderingMissingError}
    ELSE {Returned, PageNotFound, FetchExhaustedError, RetryAfterValueError}

\* after the fetch: extraction, conversion and the write raise, or the page
\* is written (changed) or found identical
AfterFetch == {"raises", "changed", "unchanged"}

\* except ScrapingError as e
IsScrapingError(e) == e.class = "ScrapingError"

ScrapeSleep(i) == [ev |-> "sleep", i |-> i, result |-> Returned]
ScrapeFetch(i, r) == [ev |-> "fetch", i |-> i, result |-> r]

\* for i, url in enumerate(urls): if i > 0: time.sleep(delay)
BeforePage(i) == IF i > 0 THEN <<ScrapeSleep(i)>> ELSE <<>>

\* the URLs discovery returns, as far as url_to_filepath tells them apart:
\* one urlparse accepts, and one it rejects with ValueError ("http://[bad",
\* which an entry of pages.urls without '*' passes through normalize_url
\* unchanged and unparsed)
UrlForms == {"wellformed", "malformed"}

UrlValueError == [class |-> "ValueError", msg |-> "Invalid IPv6 URL"]

ScrapePath(i, r) == [ev |-> "path", i |-> i, result |-> r]

\* urlparse(url) in url_to_filepath raises
PathRaises_Never(url) == FALSE

PathRaises(url) == url = "malformed"

ScrapeInit ==
    /\ CrawlIdle /\ FetchIdle /\ PageIdle /\ DiscoverIdle /\ StripIdle
    /\ s_discovery \in [raises : BOOLEAN,
                         urls : UNION {[1..n -> UrlForms] : n \in 0..MaxUrls}]
    /\ s_missing \in BOOLEAN
    /\ s_i = 0
    /\ scraped_count = 0
    /\ changed_count = 0
    /\ failed_count = 0
    /\ s_pc = "discover"
    /\ s_log = <<>>

\* except Exception: return 0, 0, 0, []
ScrapeDiscoveryFails ==
    /\ s_pc = "discover" /\ s_discovery.raises
    /\ s_pc' = "done"
    /\ UNCHANGED <<crawlVars, fetchVars, pageVars, discoverVars, stripVars, s_discovery, s_missing, s_i,
                   scraped_count, changed_count, failed_count, s_log>>

\* if not urls: return 0, 0, 0, []
ScrapeNoPages ==
    /\ s_pc = "discover" /\ ~s_discovery.raises /\ s_discovery.urls = <<>>
    /\ s_pc' = "done"
    /\ UNCHANGED <<crawlVars, fetchVars, pageVars, discoverVars, stripVars, s_discovery, s_missing, s_i,
                   scraped_count, changed_count, failed_count, s_log>>

\* the counters are set to 0 and the loop is entered
ScrapeStart ==
    /\ s_pc = "discover" /\ ~s_discovery.raises /\ s_discovery.urls # <<>>
    /\ s_pc' = "loop"
    /\ UNCHANGED <<crawlVars, fetchVars, pageVars, discoverVars, stripVars, s_discovery, s_missing, s_i,
                   scraped_count, changed_count, failed_count, s_log>>

ScrapeInLoop == s_pc = "loop" /\ s_i < Len(s_discovery.urls)

\* the URL of this iteration (i counts from 0)
ScrapeUrl == s_discovery.urls[s_i + 1]

\* filepath = url_to_filepath(url, site.base_url, site.output_dir) raises:
\* the call stands before the try, the exception leaves _scrape_site
ScrapePathRaises ==
    /\ ScrapeInLoop /\ PathRaises(ScrapeUrl)
    /\ s_log' = s_log \o BeforePage(s_i) \o <<ScrapePath(s_i, UrlValueError)>>
    /\ s_pc' = "raised"
    /\ UNCHANGED <<crawlVars, fetchVars, pageVars, discoverVars, stripVars, s_discovery, s_missing, s_i,
                   scraped_count, changed_count, failed_count>>

\* the try body runs to its end: scraped_count += 1
ScrapePageOk ==
    /\ ScrapeInLoop /\ ~PathRaises(ScrapeUrl)
    /\ Returned \in FetchPageResults(s_missing)
    /\ \E after \in AfterFetch \ {"raises"} :
          changed_count' = IF after = "changed" THEN changed_count + 1
                           ELSE changed_count
    /\ s_log' = s_log \o BeforePage(s_i) \o <<ScrapeFetch(s_i, Returned)>>
    /\ scraped_count' = scraped_count + 1
    /\ s_i' = s_i + 1
    /\ UNCHANGED <<crawlVars, fetchVars, pageVars, discoverVars, stripVars, s_discovery, s_missing,
                   failed_count, s_pc>>

\* except ScrapingError as e: failed_count += 1
ScrapePageSkipped ==
    /\ ScrapeInLoop /\ ~PathRaises(ScrapeUrl)
    /\ \E r \in FetchPageResults(s_missing) :
          /\ r # Returned /\ IsScrapingError(r)
          /\ s_log' = s_log \o BeforePage(s_i) \o <<ScrapeFetch(s_i, r)>>
    /\ failed_count' = failed_count + 1
    /\ s_i' = s_i + 1
    /\ UNCHANGED <<crawlVars, fetchVars, pageVars, discoverVars, stripVars, s_discovery, s_missing,
                   scraped_count, changed_count, s_pc>>

\* except Exception as e: failed_count += 1 (raised by the fetch or after it)
ScrapePageFailed ==
    /\ ScrapeInLoop /\ ~PathRaises(ScrapeUrl)
    /\ \E r \in FetchPageResults(s_missing) :
          /\ r # Returned => ~IsScrapingError(r)
          /\ s_log' = s_log \o BeforePage(s_i) \o <<ScrapeFetch(s_i, r)>>
    /\ failed_count' = failed_count + 1
    /\ s_i' = s_i + 1
    /\ UNCHANGED <<crawlVars, fetchVars, pageVars, discoverVars, stripVars, s_discovery, s_missing,
                   scraped_count, changed_count, s_pc>>

\* return scraped_count, changed_count, failed_count, changed_files
ScrapeReturn ==
    /\ s_pc = "loop" /\ ~(s_i < Len(s_discovery.urls))
    /\ s_pc' = "done"
    /\ UNCHANGED <<crawlVars, fetchVars, pageVars, discoverVars, stripVars, s_discovery, s_missing, s_i,
                   scraped_count, changed_count, failed_count, s_log>>

ScrapeNext ==
    \/ ScrapeDiscoveryFails
    \/ ScrapeNoPages
    \/ ScrapeStart
    \/ ScrapePathRaises
    \/ ScrapePageOk
    \/ ScrapePageSkipped
    \/ ScrapePageFailed
    \/ ScrapeReturn

SpecScrape == ScrapeInit /\ [][ScrapeNext]_vars

(***************************************************************************)
(* URLs as strings.  discover_pages_for_site keeps the URLs of all         *)
(* strategies in one set of strings and returns them sorted, so here a     *)
(* URL is the sequence of its characters.                                  *)
(***************************************************************************)
\* the characters of the model in code point order
Ascii == <<"#", "*", ".", "/", "1", "2", ":", "[",
           "a", "b", "c", "d", "e", "f", "g", "h", "i", "j", "k", "l", "m",
           "n", "o", "p", "q", "r", "s", "t", "u", "v", "w", "x", "y", "z">>

Ord(c) == CHOOSE i \in 1..Len(Ascii) : Ascii[i] = c

NetlocChars(n) ==
    CASE n = BaseNetloc -> <<"e", "x", "a", "m", "p", "l", "e", ".", "c", "o", "m">>
      [] n = OtherNetloc -> <<"o", "t", "h", "e", "r", ".", "c", "o", "m">>
      [] n = BadNetloc -> <<"[", "b", "a", "d">>
      [] OTHER -> <<>>

\* the only fragment of the model is "top"
FragChars(f) == IF f = "" THEN <<>> ELSE <<"#", "t", "o", "p">>

\* the only URL of the model with scheme http is "http://[bad"
SchemeChars(n) ==
    IF n = BadNetloc THEN <<"h", "t", "t", "p", ":", "/", "/">>
    ELSE <<"h", "t", "t", "p", "s", ":", "/", "/">>

\* the string of an absolute URL [netloc, path, frag]
StrOfUrl(u) ==
    IF u.netloc = "" THEN <<"d", "a", "t", "a", ":">> \o u.path
    ELSE SchemeChars(u.netloc) \o NetlocChars(u.netloc) \o u.path \o FragChars(u.frag)

\* the string of an href, a URL-list entry or a <loc> text, as written
StrOfHref(h) ==
    CASE h.form \in {"rooted", "rel"} -> h.path \o FragChars(h.frag)
      [] h.form = "netpath" -> <<"/", "/">> \o NetlocChars(h.netloc) \o h.path
      [] h.form = "fragment" -> FragChars(h.frag)
      [] h.form = "script" ->
            <<"j", "a", "v", "a", "s", "c", "r", "i", "p", "t", ":">> \o h.path
      [] h.form = "opaque" -> <<"d", "a", "t", "a", ":">> \o h.path
      [] OTHER ->
            SchemeChars(h.netloc) \o NetlocChars(h.netloc) \o h.path \o FragChars(h.frag)

\* a < b for Python strings: by code point, a proper prefix first
RECURSIVE LexLess(_, _)
LexLess(a, b) ==
    IF a = <<>> THEN b # <<>>
    ELSE IF b = <<>> THEN FALSE
    ELSE IF Head(a) = Head(b) THEN LexLess(Tail(a), Tail(b))
    ELSE Ord(Head(a)) < Ord(Head(b))

RECURSIVE sorted_Descending(_)
sorted_Descending(S) ==
    IF S = {} THEN <<>>
    ELSE LET m == CHOOSE x \in S : \A y \in S \ {x} : LexLess(y, x)
         IN  <<m>> \o sorted_Descending(S \ {m})

\* sorted(urls)
RECURSIVE sorted(_)
sorted(S) ==
    IF S = {} THEN <<>>
    ELSE LET m == CHOOSE x \in S : \A y \in S \ {x} : LexLess(x, y)
         IN  <<m>> \o sorted(S \ {m})

(***************************************************************************)
(* discover_from_urls: literal entries and glob entries.                   *)
(***************************************************************************)
EAStar == [form |-> "rooted", netloc |-> "", path |-> PASlashStar, frag |-> ""]
EStar == [form |-> "rooted", netloc |-> "", path |-> <<"/", "*">>, frag |-> ""]

\* pages["urls"]
UrlLists ==
    { <<>>,
      <<HRoot, HA>>,
      <<EAStar>>,
      <<HA, EStar>>,
      <<HExt, EAStar, HAB>> }

\* if "*" in url_pattern
HasStar(entry) == "*" \in Range(StrOfHref(entry))

\* url_pattern.rsplit("/*", 1)[0]: what stands before the last "/*"
RSplitStar(text) ==
    LET at == {i \in 1..(Len(text) - 1) : text[i] = "/" /\ text[i + 1] = "*"}
    IN  IF at = {} THEN text ELSE SubSeq(text, 1, SetMax(at) - 1)

\* parent_path = url_pattern.rsplit("/*", 1)[0] or "/"  (the entry's netloc
\* holds no "/*", so the split falls in its path)
ParentHref(entry) ==
    LET before == RSplitStar(entry.path)
    IN  [entry EXCEPT !.path = IF before = <<>> /\ entry.form = "rooted"
                               THEN RootPath ELSE before]

\* the for loop over the parent page's links: the URLs it adds to result; a
\* ValueError of urlparse leaves the loop with what was added before
RECURSIVE GlobMatches(_, _)
GlobMatches(links, pattern) ==
    IF links = <<>> THEN {}
    ELSE LET full_url == normalize_url(Head(links), base_url)
         IN  IF UrlparseRaises(full_url) THEN {}
             ELSE (IF /\ is_same_domain(full_url, base_url)
                      /\ matches_pattern(full_url.path, pattern)
                   THEN {StrOfUrl(full_url)} ELSE {})
                  \cup GlobMatches(Tail(links), pattern)

GlobRaises(links) ==
    \E i \in 1..Len(links) : UrlparseRaises(normalize_url(links[i], base_url))

ExpandCatches_RequestsOnly(kind) == kind = "fetch"

\* discover_from_urls: except Exception as e
ExpandCatches(kind) == kind \in RaiseKinds

(***************************************************************************)
(* discover_from_sitemap and _parse_sitemap_xml.  A sitemap document is    *)
(* [fetch, xml, locs, ns]: whether fetching it raises, whether it parses   *)
(* and as what, its <loc> elements in document order, and whether its      *)
(* elements carry the sitemaps.org namespace.                              *)
(***************************************************************************)
HSitemap == [form |-> "rooted", netloc |-> "", path |-> <<"/", "s">>, frag |-> ""]
HChild1 == [form |-> "abs", netloc |-> BaseNetloc, path |-> <<"/", "s", "1">>, frag |-> ""]
HChild2 == [form |-> "abs", netloc |-> BaseNetloc, path |-> <<"/", "s", "2">>, frag |-> ""]
AbsA == [form |-> "abs", netloc |-> BaseNetloc, path |-> APath, frag |-> ""]
AbsAB == [form |-> "abs", netloc |-> BaseNetloc, path |-> ABPath, frag |-> ""]
NoText == [form |-> "rel", netloc |-> "", path |-> <<>>, frag |-> ""]

\* the URL a <loc> text names when it is fetched as it stands
AsUrl(h) == [netloc |-> h.netloc, path |-> h.path, frag |-> h.frag]

\* a <loc> element: has it a text at all, is the text wrapped in whitespace,
\* and the text without that whitespace
El(h) == [none |-> FALSE, ws |-> FALSE, href |-> h]
ElWs(h) == [none |-> FALSE, ws |-> TRUE, href |-> h]
ElNone == [none |-> TRUE, ws |-> FALSE, href |-> NoText]
ElBlank == [none |-> FALSE, ws |-> TRUE, href |-> NoText]

Locs(hs) == [i \in 1..Len(hs) |-> El(hs[i])]

\* elem.text.strip() if elem.text else ""
LocText(e) == IF e.none THEN NoText ELSE e.href

\* a document: the elements carry the sitemaps.org namespace (ns) or none
UrlSet(locs) == [fetch |-> "ok", xml |-> "urlset", locs |-> locs, ns |-> TRUE]
Index(locs) == [fetch |-> "ok", xml |-> "index", locs |-> locs, ns |-> TRUE]
Malformed == [fetch |-> "ok", xml |-> "malformed", locs |-> <<>>, ns |-> FALSE]
Unreachable == [fetch |-> "raises", xml |-> "malformed", locs |-> <<>>, ns |-> FALSE]
Plain(doc) == [doc EXCEPT !.ns = FALSE]

\* sitemap_url = normalize_url(sitemap_path, base_url)
SmTop == normalize_url(HSitemap, base_url)

\* the sitemaps a site can serve
SitemapSites ==
    { SmTop :> Unreachable,
      SmTop :> Malformed,
      SmTop :> UrlSet(<<>>),
      SmTop :> UrlSet(Locs(<<AbsAB, AbsA, AbsA, HExt, NoText>>)),
      SmTop :> UrlSet(Locs(<<AbsA, HBad>>)),
      SmTop :> Plain(UrlSet(Locs(<<HAB, AbsA>>))),
      (SmTop :> Index(Locs(<<HChild1, HChild2>>)))
          @@ (AsUrl(HChild1) :> Unreachable)
          @@ (AsUrl(HChild2) :> UrlSet(Locs(<<AbsAB>>))),
      (SmTop :> Index(Locs(<<HChild1, HChild2>>)))
          @@ (AsUrl(HChild1) :> UrlSet(Locs(<<AbsA>>)))
          @@ (AsUrl(HChild2) :> Malformed),
      (SmTop :> Index(Locs(<<HChild1>>)))
          @@ (AsUrl(HChild1) :> UrlSet(Locs(<<AbsA, HBad>>))) }

\* _fetch_html(url) raises: the site does not serve it, or the request fails
SmFetchRaises(w, u) == u \notin DOMAIN w \/ w[u].fetch = "raises"

Resolved(raises, us, fs) == [raises |-> raises, urls |-> us, fetches |-> fs]

NsOr_NamespacedOnly(namespaced, plain) == namespaced

\* root.findall(".//sm:x/sm:loc", ns) or root.findall(".//x/loc")
NsOr(namespaced, plain) == IF namespaced # <<>> THEN namespaced ELSE plain

\* the <loc> elements under the elements named by kind ("index": sitemap,
\* "urlset": url) that the two searches find in a parsed document
Findall(doc, kind) ==
    NsOr(IF doc.ns /\ doc.xml = kind THEN doc.locs ELSE <<>>,
         IF ~doc.ns /\ doc.xml = kind THEN doc.locs ELSE <<>>)

\* is_same_domain(url, base_url) on a <loc> text
SameHost(url) == is_same_domain(url, base_url)

\* the for loop over url_elements: if url and is_same_domain(url, base_url)
RECURSIVE UrlSetLocs(_)
UrlSetLocs(locs) ==
    IF locs = <<>> THEN Resolved(FALSE, <<>>, <<>>)
    ELSE LET url == LocText(Head(locs))
             rest == UrlSetLocs(Tail(locs))
         IN  IF StrOfHref(url) = <<>> THEN rest
             ELSE IF UrlparseRaises(url) THEN Resolved(TRUE, <<>>, <<>>)
             ELSE IF rest.raises THEN rest
             ELSE IF SameHost(url)
                  THEN Resolved(FALSE, <<StrOfHref(url)>> \o rest.urls, <<>>)
                  ELSE rest

ChildCatches_RequestsOnly(kind) == kind = "fetch"

ChildCatches_Nothing(kind) == FALSE

\* _parse_sitemap_xml: except Exception around each child of an index
ChildCatches(kind) == kind \in {"fetch", "ValueError", "RecursionError"}

\* except ET.ParseError as e: return []
ParseErrorCaught(doc) == doc.xml = "malformed"

\* the interpreter raises RecursionError in a call nested deeper than this
TooDeep(depth) == depth > RecursionLimit

\* _parse_sitemap_xml(xml_content, ...) in the site w, as the depth-th nested
\* call of itself
RECURSIVE _parse_sitemap_xml(_, _, _)
RECURSIVE ResolveChildren(_, _, _)
_parse_sitemap_xml(doc, w, depth) ==
    IF TooDeep(depth) THEN Resolved(TRUE, <<>>, <<>>)
    ELSE IF doc.xml = "malformed"
    THEN Resolved(~ParseErrorCaught(doc), <<>>, <<>>)
    ELSE IF Findall(doc, "index") # <<>>
    THEN ResolveChildren(Findall(doc, "index"), w, depth)
    ELSE UrlSetLocs(Findall(doc, "urlset"))

ResolveChildren_FirstOnly(refs, w, depth) ==
    IF refs = <<>> THEN Resolved(FALSE, <<>>, <<>>)
    ELSE LET u == AsUrl(LocText(Head(refs)))
         IN  IF SmFetchRaises(w, u) THEN Resolved(FALSE, <<>>, <<u>>)
             ELSE LET sub == _parse_sitemap_xml(w[u], w, depth + 1)
                  IN  Resolved(FALSE, IF sub.raises THEN <<>> ELSE sub.urls,
                               <<u>> \o sub.fetches)

\* the for loop over sitemap_refs
ResolveChildren(refs, w, depth) ==
    IF refs = <<>> THEN Resolved(FALSE, <<>>, <<>>)
    ELSE LET ref == LocText(Head(refs))
             u == AsUrl(ref)
         IN  IF StrOfHref(ref) = <<>> THEN ResolveChildren(Tail(refs), w, depth)
             ELSE IF SmFetchRaises(w, u)
             THEN IF ChildCatches("fetch")
                  THEN LET rest == ResolveChildren(Tail(refs), w, depth)
                       IN  Resolved(rest.raises, rest.urls, <<u>> \o rest.fetches)
                  ELSE Resolved(TRUE, <<>>, <<u>>)
             ELSE LET sub == _parse_sitemap_xml(w[u], w, depth + 1)
                  IN  IF sub.raises /\ ~ChildCatches("RecursionError")
                      THEN Resolved(TRUE, <<>>, <<u>> \o sub.fetches)
                      ELSE LET rest == ResolveChildren(Tail(refs), w, depth)
                           IN  Resolved(rest.raises,
                                        (IF sub.raises THEN <<>> ELSE sub.urls)
                                            \o rest.urls,
                                        <<u>> \o sub.fetches \o rest.fetches)

SitemapCatches_RequestsOnly(kind) == kind = "fetch"

\* discover_from_sitemap: except Exception as e: return []
SitemapCatches(kind) == kind \in {"fetch", "ValueError", "RecursionError"}

discover_from_sitemap(sitemap_path, w) ==
    LET sitemap_url == normalize_url(sitemap_path, base_url)
    IN  IF SmFetchRaises(w, sitemap_url)
        THEN Resolved(~SitemapCatches("fetch"), <<>>, <<sitemap_url>>)
        ELSE LET r == _parse_sitemap_xml(w[sitemap_url], w, 1)
             IN  IF r.raises
                 THEN Resolved(~SitemapCatches("ValueError"), <<>>,
                               <<sitemap_url>> \o r.fetches)
                 ELSE Resolved(FALSE, r.urls, <<sitemap_url>> \o r.fetches)

(***************************************************************************)
(* discover_pages_for_site                                                 *)
(***************************************************************************)
\* pages["crawl"]
CrawlConfigs ==
    { [start |-> HRoot, max_depth |-> 1, max_pages |-> 3,
       include |-> <<>>, exclude |-> <<>>],
      [start |-> HRoot, max_depth |-> 1, max_pages |-> 3,
       include |-> <<>>, exclude |-> <<PRoot>>] }

Present(v) == [present |-> TRUE, value |-> v]

Fallback_Never(us) == us

\* if not urls: urls.add(site.base_url)
Fallback(us) == IF us = {} THEN {StrOfUrl(base_url)} ELSE us

Strings(us) == [i \in 1..Len(us) |-> StrOfUrl(us[i])]

DiscoverInit ==
    /\ CrawlIdle /\ FetchIdle /\ PageIdle /\ ScrapeIdle /\ StripIdle
    /\ pages \in [urls : {Absent} \cup {Present(l) : l \in UrlLists},
                  sitemap : {Absent, Present(HSitemap)},
                  crawl : {Absent} \cup {Present(c) : c \in CrawlConfigs}]
    /\ sm_web \in IF pages.sitemap.present THEN SitemapSites ELSE {<<>>}
    /\ urls = {}
    /\ d_pc = "urls"
    /\ d_k = 1
    /\ u_result = {}
    /\ u_fetch = <<>>
    /\ d_result = <<>>
    /\ d_yield = NoYield
    /\ d_fetches = <<>>

\* if "urls" in pages: no
DiscoverUrlsAbsent ==
    /\ d_pc = "urls" /\ ~pages.urls.present
    /\ d_pc' = "sitemap"
    /\ UNCHANGED <<notDiscover, crawlVars, pages, sm_web, urls, d_k, u_result, u_fetch,
                   d_result, d_yield, d_fetches>>

\* for url_pattern in urls: one more entry
InUrls == d_pc = "urls" /\ pages.urls.present /\ d_k <= Len(pages.urls.value)

Entry == pages.urls.value[d_k]

\* result.add(normalize_url(url_pattern, base_url))
DiscoverUrlDirect ==
    /\ InUrls /\ ~HasStar(Entry)
    /\ u_result' = u_result \cup {StrOfUrl(normalize_url(Entry, base_url))}
    /\ u_fetch' = Append(u_fetch, "none")
    /\ d_k' = d_k + 1
    /\ UNCHANGED <<notDiscover, crawlVars, pages, sm_web, urls, d_pc, d_result,
                   d_yield, d_fetches>>

\* the parent page is fetched and parsed, its matching links added
DiscoverUrlGlob ==
    /\ InUrls /\ HasStar(Entry)
    /\ LET parent_url == normalize_url(ParentHref(Entry), base_url)
       IN  /\ d_fetches' = Append(d_fetches, parent_url)
           /\ \E doc \in Served(parent_url) :
                /\ Reveal(parent_url, doc)
                /\ u_result' = u_result \cup GlobMatches(doc, StrOfHref(Entry))
                /\ u_fetch' = Append(u_fetch, "ok")
                /\ d_pc' = IF GlobRaises(doc) /\ ~ExpandCatches("links")
                           THEN "raised" ELSE d_pc
    /\ d_k' = d_k + 1
    /\ UNCHANGED <<notDiscover, start, max_depth, max_pages, include, exclude,
                   queue, visited, discovered, c_pc, result, raised, fetched,
                   discDepth, delay, c_fetch_func, slept, prev, pages, sm_web, urls,
                   d_result, d_yield>>

\* _fetch_html or BeautifulSoup raises for the parent page
DiscoverUrlGlobFails ==
    /\ InUrls /\ HasStar(Entry)
    /\ LET parent_url == normalize_url(ParentHref(Entry), base_url)
       IN  /\ d_fetches' = Append(d_fetches, parent_url)
           /\ \E doc \in Served(parent_url) : Reveal(parent_url, doc)
    /\ \E kind \in {"fetch", "parse"} :
          d_pc' = IF ExpandCatches(kind) THEN d_pc ELSE "raised"
    /\ u_fetch' = Append(u_fetch, "failed")
    /\ d_k' = d_k + 1
    /\ UNCHANGED <<notDiscover, start, max_depth, max_pages, include, exclude,
                   queue, visited, discovered, c_pc, result, raised, fetched,
                   discDepth, delay, c_fetch_func, slept, prev, pages, sm_web, urls,
                   u_result, d_result, d_yield>>

\* return list(result); urls.update(discovered)
DiscoverUrlsReturn ==
    /\ d_pc = "urls" /\ pages.urls.present /\ ~(d_k <= Len(pages.urls.value))
    /\ urls' = urls \cup u_result
    /\ d_yield' = [d_yield EXCEPT !.urls = u_result]
    /\ d_pc' = "sitemap"
    /\ UNCHANGED <<notDiscover, crawlVars, pages, sm_web, d_k, u_result, u_fetch, d_result,
                   d_fetches>>

\* if "sitemap" in pages: no
DiscoverSitemapAbsent ==
    /\ d_pc = "sitemap" /\ ~pages.sitemap.present
    /\ d_pc' = "crawl"
    /\ UNCHANGED <<notDiscover, crawlVars, pages, sm_web, urls, d_k, u_result, u_fetch,
                   d_result, d_yield, d_fetches>>

\* discovered = discover_from_sitemap(...); urls.update(discovered)
DiscoverSitemap ==
    /\ d_pc = "sitemap" /\ pages.sitemap.present
    /\ LET r == discover_from_sitemap(pages.sitemap.value, sm_web)
       IN  /\ d_fetches' = d_fetches \o r.fetches
           /\ urls' = urls \cup Range(r.urls)
           /\ d_yield' = [d_yield EXCEPT !.sitemap = r.urls]
           /\ d_pc' = IF r.raises THEN "raised" ELSE "crawl"
    /\ UNCHANGED <<notDiscover, crawlVars, pages, sm_web, d_k, u_result, u_fetch, d_result>>

\* if "crawl" in pages: no
DiscoverCrawlAbsent ==
    /\ d_pc = "crawl" /\ ~pages.crawl.present
    /\ d_pc' = "return"
    /\ UNCHANGED <<notDiscover, crawlVars, pages, sm_web, urls, d_k, u_result, u_fetch,
                   d_result, d_yield, d_fetches>>

\* discover_from_crawl(base_url=..., start=..., ...) is entered
DiscoverCrawlCall ==
    /\ d_pc = "crawl" /\ pages.crawl.present
    /\ LET cfg == pages.crawl.value
       IN  /\ start' = cfg.start
           /\ max_depth' = cfg.max_depth
           /\ max_pages' = cfg.max_pages
           /\ include' = cfg.include
           /\ exclude' = cfg.exclude
           /\ queue' = <<[url |-> normalize_url(cfg.start, base_url), depth |-> 0]>>
    /\ visited' = {}
    /\ discovered' = <<>>
    /\ c_pc' = "loop"
    /\ d_pc' = "crawling"
    /\ UNCHANGED <<notDiscover, result, web, raised, fetched, discDepth, delay,
                   c_fetch_func, slept, prev, pages,
                   sm_web, urls, d_k, u_result, u_fetch, d_result, d_yield, d_fetches>>

\* discover_from_crawl has returned; urls.update(discovered)
DiscoverCrawlReturn ==
    /\ d_pc = "crawling" /\ c_pc = "done"
    /\ urls' = urls \cup Range(Strings(result))
    /\ d_yield' = [d_yield EXCEPT !.crawl = Strings(result)]
    /\ d_pc' = "return"
    /\ UNCHANGED <<notDiscover, crawlVars, pages, sm_web, d_k, u_result, u_fetch, d_result,
                   d_fetches>>

\* if not urls: urls.add(site.base_url); return sorted(urls)
DiscoverReturn ==
    /\ d_pc = "return"
    /\ urls' = Fallback(urls)
    /\ d_result' = sorted(Fallback(urls))
    /\ d_pc' = "done"
    /\ UNCHANGED <<notDiscover, crawlVars, pages, sm_web, d_k, u_result, u_fetch, d_yield,
                   d_fetches>>

DiscoverNext ==
    \/ DiscoverUrlsAbsent
    \/ DiscoverUrlDirect
    \/ DiscoverUrlGlob
    \/ DiscoverUrlGlobFails
    \/ DiscoverUrlsReturn
    \/ DiscoverSitemapAbsent
    \/ DiscoverSitemap
    \/ DiscoverCrawlAbsent
    \/ DiscoverCrawlCall
    \/ DiscoverCrawlReturn
    \/ DiscoverReturn
    \/ CrawlNext

SpecDiscover == DiscoverInit /\ [][DiscoverNext]_vars


(***************************************************************************)
(* discover_pages_for_site on a site that configures a sitemap only: the   *)
(* three sitemap URLs of the site serve any of the documents below, so an  *)
(* index can list a missing, broken, deeper or enclosing sitemap.          *)
(***************************************************************************)
HTop == [form |-> "abs", netloc |-> BaseNetloc, path |-> HSitemap.path, frag |-> ""]

SitemapUrls == {SmTop, AsUrl(HChild1), AsUrl(HChild2)}

MixedLocs == <<El(AbsA), ElWs(AbsAB), El(HExt), ElNone, ElBlank>>

SitemapDocs ==
    { Unreachable,
      Malformed,
      UrlSet(MixedLocs),
      Plain(UrlSet(MixedLocs)),
      UrlSet(Locs(<<AbsA, HBad>>)),
      UrlSet(Locs(<<HAB>>)),
      Index(<<El(HChild1), ElWs(HChild2), El(HChild1)>>),
      Plain(Index(Locs(<<HChild1, HChild2>>))),
      Index(Locs(<<HTop>>)),
      Index(<<ElBlank, El(HChild2)>>),
      Index(Locs(<<HChild2>>)),
      UrlSet(Locs(<<AbsA>>)) }

SitemapInit ==
    /\ CrawlIdle /\ FetchIdle /\ PageIdle /\ ScrapeIdle /\ StripIdle
    /\ pages = [urls |-> Absent, sitemap |-> Present(HSitemap), crawl |-> Absent]
    /\ sm_web \in [SitemapUrls -> SitemapDocs]
    /\ urls = {}
    /\ d_pc = "urls"
    /\ d_k = 1
    /\ u_result = {}
    /\ u_fetch = <<>>
    /\ d_result = <<>>
    /\ d_yield = NoYield
    /\ d_fetches = <<>>

SitemapNext ==
    \/ DiscoverUrlsAbsent
    \/ DiscoverSitemap
    \/ DiscoverCrawlAbsent
    \/ DiscoverReturn

SpecSitemap == SitemapInit /\ [][SitemapNext]_vars

\* discover_pages_for_site has not returned and goes on to its next step
Running ==
    /\ d_pc \notin {"idle", "done", "raised"}
    /\ d_pc' \in {"urls", "sitemap", "crawl", "crawling", "return", "done", "raised"}
    /\ d_pc' # d_pc

\* discover_pages_for_site is a sequential function: it keeps running until
\* it returns or raises
SpecSitemapLive == SpecSitemap /\ WF_d_pc(Running)

(***************************************************************************)
(* utils.strip_tracking_params(url).  A URL is the part before the query   *)
(* (base), the query (absent, or the parameters after the '?' in order),   *)
(* and the fragment (absent or its text); names are sequences of           *)
(* characters.                                                             *)
(***************************************************************************)
MaxParams == 2

NoQuery == [present |-> FALSE, params |-> <<>>]

Query(params) == [present |-> TRUE, params |-> params]

NoFrag == [present |-> FALSE, text |-> ""]

\* "https://example.com/page", and "http://[bad", which urlparse rejects
\* with ValueError
PageBase == "https://example.com/page"
BadBase == "http://[bad"

N_utm_source == <<"u", "t", "m", "_", "s", "o", "u", "r", "c", "e">>
N_UTM_SOURCE == <<"U", "T", "M", "_", "S", "O", "U", "R", "C", "E">>
N_utm == <<"u", "t", "m">>
N_fbclid == <<"f", "b", "c", "l", "i", "d">>
N_gclid == <<"g", "c", "l", "i", "d">>
N_Gclid == <<"G", "c", "l", "i", "d">>
N_msclkid == <<"m", "s", "c", "l", "k", "i", "d">>
N_ga == <<"_", "g", "a">>
N_gl == <<"_", "g", "l">>
N_hstc == <<"_", "_", "h", "s", "t", "c">>
N_hssc == <<"_", "_", "h", "s", "s", "c">>
N_hsfp == <<"_", "_", "h", "s", "f", "p">>
N_id == <<"i", "d">>
N_ref == <<"r", "e", "f">>

\* the denylist: names, and prefixes of names
TRACKING_PARAMS ==
    {N_fbclid, N_gclid, N_msclkid, N_ga, N_gl, N_hstc, N_hssc, N_hsfp}

TRACKING_PREFIXES == {<<"u", "t", "m", "_">>}

\* str.lower() on one character and on a name
lower(c) ==
    CASE c = "U" -> "u" [] c = "T" -> "t" [] c = "M" -> "m" [] c = "S" -> "s"
      [] c = "O" -> "o" [] c = "R" -> "r" [] c = "C" -> "c" [] c = "E" -> "e"
      [] c = "G" -> "g" [] OTHER -> c

Lower_CaseSensitive(name) == name

Lower(name) == [i \in 1..Len(name) |-> lower(name[i])]

startswith(name, prefix) ==
    /\ Len(name) >= Len(prefix)
    /\ SubSeq(name, 1, Len(prefix)) = prefix

\* is the parameter's name on the denylist
is_tracking(name) ==
    \/ Lower(name) \in TRACKING_PARAMS
    \/ \E prefix \in TRACKING_PREFIXES : startswith(Lower(name), prefix)

\* the call's outcome: it returns a URL, never raises
Returns(url) == [raises |-> FALSE, url |-> url]

\* urlparse raises ValueError on it
urlparse_raises(url) == url.base = BadBase

strip_tracking_params(url) ==
    IF urlparse_raises(url)
    THEN Returns(url)
    ELSE LET kept == SelectSeq(url.query.params, LAMBDA p : ~is_tracking(p.name))
         IN  Returns([url EXCEPT !.query = IF kept = <<>> THEN NoQuery ELSE Query(kept)])

\* the parameters the model draws URLs from: tracking names in both cases,
\* names that are not tracked, one of them a proper prefix of "utm_"
ParamNames == {N_utm_source, N_UTM_SOURCE, N_fbclid, N_Gclid, N_id, N_utm, N_ref}

Params == [name : ParamNames, value : {"1"}]

StripUrls ==
    [base : {PageBase, BadBase},
     query : {NoQuery} \cup
             {Query(ps) : ps \in UNION {[1..n -> Params] : n \in 0..MaxParams}},
     frag : {NoFrag, [present |-> TRUE, text |-> "section"]}]

StripInit ==
    /\ CrawlIdle /\ FetchIdle /\ PageIdle /\ ScrapeIdle /\ DiscoverIdle
    /\ t_url \in StripUrls
    /\ t_outs = <<>>

\* the URL the k-th call is given: t_url, then what the call before returned
StripArg(k) == IF k = 1 THEN t_url ELSE t_outs[k - 1].url

\* one call of strip_tracking_params, on the URL the caller holds
StripCall ==
    /\ t_url # <<>>
    /\ Len(t_outs) < 2
    /\ t_outs' = Append(t_outs, strip_tracking_params(StripArg(Len(t_outs) + 1)))
    /\ UNCHANGED <<crawlVars, fetchVars, pageVars, scrapeVars, discoverVars, t_url>>

StripNext == StripCall

SpecStrip == StripInit /\ [][StripNext]_vars

(***************************************************************************)
(* The link graph of the site, as far as the crawl has met it.             *)
(***************************************************************************)
\* the same-host pages a document links to (what the crawl would enqueue
\* from it, visited or not)
DocLinks(doc) ==
    { normalize_url(doc[i], base_url) :
        i \in { j \in 1..Len(doc) :
                  /\ ~StartsWithSkipped(doc[j])
                  /\ ~UrlparseRaises(normalize_url(doc[j], base_url))
                  /\ is_same_domain(normalize_url(doc[j], base_url), base_url) } }

LinksOf(u) == IF u \in DOMAIN web THEN DocLinks(web[u]) ELSE {}

\* the filter in the words of the specification
Passes(path) ==
    /\ ~\E i \in 1..Len(exclude) : matches_pattern(path, exclude[i])
    /\ \/ include = <<>>
       \/ \E i \in 1..Len(include) : matches_pattern(path, include[i])

\* the URLs at most k links away from the seed
RECURSIVE ReachWithin(_)
ReachWithin(k) ==
    IF k = 0 THEN {start_url}
    ELSE LET R == ReachWithin(k - 1)
         IN  R \cup UNION {LinksOf(u) : u \in R}

\* the same, through pages that pass the filter and whose expansion did
\* not raise
RECURSIVE FollowedWithin(_)
FollowedWithin(k) ==
    IF k = 0 THEN {start_url}
    ELSE LET R == FollowedWithin(k - 1)
         IN  R \cup UNION {LinksOf(u) : u \in {v \in R :
                               Passes(v.path) /\ v \notin DOMAIN raised}}

NoDuplicates(s) == \A i, j \in 1..Len(s) : s[i] = s[j] => i = j

NonDecreasing(s) == \A i, j \in 1..Len(s) : i <= j => s[i] <= s[j]

\* one iteration of the crawl loop is about to examine a URL not yet visited
Examining == c_pc = "loop" /\ LoopCond /\ Head(queue).url \notin visited

(***************************************************************************)
(* C1 (as stated): len(discovered) <= max_pages in every state and for the *)
(* returned list, and when more than max_pages URLs that pass the filter   *)
(* are reachable within max_depth links of the seed, exactly max_pages     *)
(* URLs are returned.                                                      *)
(***************************************************************************)
C1_Original ==
    /\ Len(discovered) <= max_pages
    /\ c_pc = "done" =>
         /\ Len(result) <= max_pages
         /\ Cardinality({u \in ReachWithin(max_depth) : Passes(u.path)}) > max_pages
              => Len(result) = max_pages

(***************************************************************************)
(* C1 (amended): len(discovered) <= max_pages in every state and for the   *)
(* returned list, and when more than max_pages URLs that pass the filter   *)
(* are reachable within max_depth links of the seed through pages that     *)
(* pass the filter and whose expansion did not raise, exactly max_pages    *)
(* URLs are returned.                                                      *)
(***************************************************************************)
C1_PageBudget ==
    /\ Len(discovered) <= max_pages
    /\ c_pc = "done" =>
         /\ Len(result) <= max_pages
         /\ Cardinality({u \in FollowedWithin(max_depth) : Passes(u.path)}) > max_pages
              => Len(result) = max_pages

\* the seed links to two children, all three pass, and the budget of 2 cuts
C1_Witness ==
    /\ c_pc = "done"
    /\ max_pages = 2
    /\ Cardinality({u \in FollowedWithin(max_depth) : Passes(u.path)}) = 3
    /\ Len(result) = 2

(***************************************************************************)
(* C2: every URL of the result was dequeued at a depth <= max_depth; a     *)
(* page dequeued at depth >= max_depth is recorded but never fetched and   *)
(* its links are never enqueued; seed / linking to /a linking to /a/b with *)
(* max_depth = 1 gives exactly </, /a>.                                    *)
(***************************************************************************)
C2_DepthCeiling ==
    /\ \A i \in 1..Len(discovered) : discDepth[i] <= max_depth
    /\ \A i \in 1..Len(fetched) : fetched[i].depth < max_depth
    /\ \A i \in 1..Len(queue) : queue[i].depth <= max_depth
    /\ \A i \in 1..Len(discovered) :
         discDepth[i] >= max_depth =>
            /\ \A j \in 1..Len(fetched) : fetched[j].url # discovered[i]
            /\ discovered[i] \notin DOMAIN web
    /\ ( /\ c_pc = "done"
         /\ start = HRoot /\ max_depth = 1 /\ max_pages >= 2
         /\ include = <<>> /\ exclude = <<>>
         /\ start_url \in DOMAIN web /\ web[start_url] = <<HA>>
         /\ start_url \notin DOMAIN raised )
       => result = <<normalize_url(HRoot, base_url), normalize_url(HA, base_url)>>

\* /a was recorded at the ceiling, nothing below it was looked at
C2_Witness ==
    /\ c_pc = "done"
    /\ start = HRoot /\ max_depth = 1
    /\ start_url \in DOMAIN web /\ web[start_url] = <<HA>>
    /\ result = <<normalize_url(HRoot, base_url), normalize_url(HA, base_url)>>
    /\ Len(fetched) = 1

(***************************************************************************)
(* C3: a URL dequeued and not yet visited is appended to discovered if and *)
(* only if no exclude pattern matches its path and (include is empty or an *)
(* include pattern matches it); exclude wins over include; a rejected URL  *)
(* is never fetched and none of its links is enqueued; every URL of the    *)
(* result passes the filter.                                               *)
(***************************************************************************)
C3_FilterStep ==
    Examining =>
        LET u == Head(queue).url
        IN  /\ Passes(u.path) <=> discovered' = Append(discovered, u)
            /\ ~Passes(u.path) =>
                 /\ discovered' = discovered
                 /\ fetched' = fetched
                 /\ queue' = Tail(queue)

C3_FilterInv ==
    /\ \A i \in 1..Len(discovered) : Passes(discovered[i].path)
    /\ \A i \in 1..Len(result) : Passes(result[i].path)
    /\ \A i \in 1..Len(fetched) : Passes(fetched[i].url.path)
    /\ \A u \in visited : Passes(u.path) <=> u \in Range(discovered)

\* C3: every loop iteration appends exactly the URLs that pass the filter and
\* hard-skips the others; discovered, result and fetched hold passing URLs only
C3_Filter == []C3_FilterInv /\ [][C3_FilterStep]_vars

\* /a/b matches the include pattern /a* and the exclude pattern /a/*: it
\* was visited and rejected, while /a was kept
C3_Witness ==
    /\ include = <<PRoot, PAStar>> /\ exclude = <<PASlashStar>>
    /\ normalize_url(HAB, base_url) \in visited
    /\ normalize_url(HAB, base_url) \notin Range(discovered)
    /\ normalize_url(HA, base_url) \in Range(discovered)

(***************************************************************************)
(* C4: within one crawl the visited set only grows; dequeuing a URL that   *)
(* is already visited changes neither visited nor discovered; discovered   *)
(* never holds the same URL twice.                                         *)
(***************************************************************************)
C4_VisitedStep ==
    /\ visited \subseteq visited'
    /\ (c_pc = "loop" /\ LoopCond /\ Head(queue).url \in visited) =>
          /\ visited' = visited
          /\ discovered' = discovered

\* C4: visited never shrinks, a visited head is dropped without effect, and
\* discovered never holds a URL twice
C4_Visited == [](NoDuplicates(discovered) /\ NoDuplicates(result))
              /\ [][C4_VisitedStep]_vars

\* a URL that two links point to sits in the frontier after it was visited
C4_Witness ==
    /\ c_pc = "loop"
    /\ queue # <<>>
    /\ Head(queue).url \in visited
    /\ Head(queue).url \in Range(discovered)

(***************************************************************************)
(* C5 (as stated): every URL of the result has the network location of     *)
(* base_url, for every start and every set of links.                       *)
(***************************************************************************)
C5_SameNetloc ==
    /\ \A i \in 1..Len(discovered) : discovered[i].netloc = base_url.netloc
    /\ \A i \in 1..Len(result) : result[i].netloc = base_url.netloc

(***************************************************************************)
(* C6: the result is in dequeue order: the frontier is first in, first     *)
(* out and seeded with (normalize(start, base_url), 0); the links of a     *)
(* page at depth d are enqueued at depth d + 1 in document order; the      *)
(* depths in the frontier are non-decreasing from head to tail; the seed   *)
(* is first in the result and the depths of the result are non-decreasing. *)
(***************************************************************************)
C6_OrderInv ==
    /\ visited = {} => queue = <<[url |-> normalize_url(start, base_url), depth |-> 0]>>
    /\ NonDecreasing([i \in 1..Len(queue) |-> queue[i].depth])
    /\ NonDecreasing(discDepth)
    /\ Len(discDepth) = Len(discovered)
    /\ \A i \in 1..Len(queue) :
         \A j \in 1..Len(discDepth) : discDepth[j] <= queue[i].depth
    /\ discovered # <<>> =>
         discovered[1] = normalize_url(start, base_url) /\ discDepth[1] = 0
    /\ c_pc = "done" => result = discovered

C6_OrderStep ==
    (c_pc = "loop" /\ LoopCond) =>
        LET u == Head(queue).url
            d == Head(queue).depth
            n == Len(queue) - 1
            added == SubSeq(queue', n + 1, Len(queue'))
            addedUrls == [i \in 1..Len(added) |-> added[i].url]
        IN  \* the head leaves, the rest keeps its order, new entries go last
            /\ Len(queue') >= n
            /\ SubSeq(queue', 1, n) = Tail(queue)
            /\ discovered' \in {discovered, Append(discovered, u)}
            /\ \A i \in 1..Len(added) : added[i].depth = d + 1
            /\ added # <<>> =>
                 /\ u \in DOMAIN web'
                 /\ addedUrls =
                      SelectSeq([i \in 1..Len(web'[u]) |->
                                    normalize_url(web'[u][i], base_url)],
                                LAMBDA x : x \in Range(addedUrls))

\* C6: the frontier is first in, first out with non-decreasing depths, and the
\* result is in dequeue order with the seed first
C6_Order == []C6_OrderInv /\ [][C6_OrderStep]_vars

\* the seed linked to /a/b and then to /a: the result keeps that order,
\* which is not the sorted one
C6_Witness ==
    /\ c_pc = "done"
    /\ result = <<normalize_url(HRoot, base_url), normalize_url(HAB, base_url),
                  normalize_url(HA, base_url)>>

(***************************************************************************)
(* C7: when fetching or parsing a page raises during expansion, the page   *)
(* stays in discovered, no link of it is enqueued, the crawl goes on with  *)
(* the rest of the frontier, and discover_from_crawl returns normally.     *)
(***************************************************************************)
FetchRaised(u) == u \in DOMAIN raised /\ raised[u] \in {"fetch", "parse"}

C7_RaiseStep ==
    \A u \in DOMAIN raised' :
        (u \notin DOMAIN raised /\ raised'[u] \in {"fetch", "parse"}) =>
            /\ u = Head(queue).url
            /\ discovered' = Append(discovered, u)
            /\ queue' = Tail(queue)
            /\ c_pc' = "loop"

C7_RaiseInv ==
    /\ \A u \in DOMAIN raised : u \in Range(discovered)
    /\ c_pc \in {"loop", "done"}

\* C7: a raise of the fetch or the parse keeps the page, enqueues nothing,
\* leaves the loop running and never reaches the caller
C7_FetchError == []C7_RaiseInv /\ [][C7_RaiseStep]_vars

\* the fetch of a page raised, the page is in the result, and a page that
\* was behind it in the frontier was processed afterwards
C7_Witness ==
    /\ c_pc = "done"
    /\ \E i, j \in 1..Len(result) :
          /\ i < j
          /\ FetchRaised(result[i])
          /\ discDepth[i] = discDepth[j]

(***************************************************************************)
(* The requests and sleeps of a fetch.                                     *)
(***************************************************************************)
\* the positions of f_log that hold a request answered by one of kinds
RequestsAt(kinds) ==
    {i \in 1..Len(f_log) : f_log[i].ev = "request" /\ f_log[i].what \in kinds}

\* position i is followed by a sleep of secs seconds
ThenSleeps(i, secs) ==
    /\ Len(f_log) > i
    /\ f_log[i + 1].ev = "sleep"
    /\ f_log[i + 1].secs = secs

\* the sleep after position i is followed by the request of the next attempt
ThenRetries(i) ==
    /\ Len(f_log) > i + 1
    /\ f_log[i + 2].ev = "request"
    /\ f_log[i + 2].attempt = f_log[i].attempt + 1

SleptSecs == [i \in 1..Len(SelectSeq(f_log, LAMBDA e : e.ev = "sleep")) |->
                 SelectSeq(f_log, LAMBDA e : e.ev = "sleep")[i].secs]

\* the server answers 429 (with a usable Retry-After or none) k times, k >= 0,
\* and then 200
RateLimitedThenOk ==
    \E k \in 0..(Len(f_script) - 1) :
        /\ \A i \in 1..k : f_script[i].kind = "429" /\ ~RetryAfterRaises(f_script[i])
        /\ f_script[k + 1].kind = "200"

(***************************************************************************)
(* C8 (as stated): a 429 does not count against the retry budget: after    *)
(* sleeping Retry-After seconds (60 if the header is absent) the fetch     *)
(* asks again, so a URL that answers 429 any number of times and then 200  *)
(* is fetched successfully, also when the 429s are >= retries.             *)
(***************************************************************************)
C8_RateLimitFree ==
    /\ \A i \in RequestsAt({"429"}) :
         LET header == f_script[f_log[i].attempt + 1].header
         IN  (header.present => header.numeric) =>
                ThenSleeps(i, IF header.present THEN header.value ELSE 60)
    /\ (f_pc = "done" /\ f_retries >= 1 /\ RateLimitedThenOk) =>
          f_outcome.kind = "returned"

(***************************************************************************)
(* C9 (as stated): a response with status >= 500 on attempt index k is     *)
(* followed by a sleep of exactly 2^k seconds and then a retry; against    *)
(* 500, 500, 200 with retries = 3 the fetch returns the 200 body on the    *)
(* third request, having slept 1 s, then 2 s, and nothing else.            *)
(***************************************************************************)
C9_Example ==
    ( /\ f_pc = "done" /\ f_retries = 3
      /\ f_script[1].kind = "500" /\ f_script[2].kind = "500"
      /\ f_script[3].kind = "200" )
    => /\ f_outcome.kind = "returned" /\ f_outcome.attempt = 2
       /\ Cardinality(RequestsAt({"200", "429", "500", "404", "403", "timeout", "connerr"})) = 3
       /\ SleptSecs = <<1, 2>>

\* C9 (as stated): after a 5xx on attempt k a sleep of 2^k and then a retry
C9_Original ==
    /\ \A i \in RequestsAt({"500"}) :
         /\ ThenSleeps(i, 2 ^ f_log[i].attempt)
         /\ f_pc = "done" => ThenRetries(i)
    /\ C9_Example

(***************************************************************************)
(* C9 (amended): a response with status >= 500 on attempt index k is       *)
(* followed by a sleep of exactly 2^k seconds and then, when               *)
(* k < retries - 1, by a retry; when k = retries - 1 the fetch fails after *)
(* that sleep without another request.  Against 500, 500, 200 with         *)
(* retries = 3 the fetch returns the 200 body on the third request, having *)
(* slept 1 s, then 2 s, and nothing else.                                  *)
(***************************************************************************)
\* C9 (amended): after a 5xx on attempt k a sleep of 2^k, then a retry when
\* k < retries - 1 and the failure of the fetch when k = retries - 1
C9_ServerErrorBackoff ==
    /\ \A i \in RequestsAt({"500"}) :
         /\ ThenSleeps(i, 2 ^ f_log[i].attempt)
         /\ (f_pc = "done" /\ f_log[i].attempt < f_retries - 1) => ThenRetries(i)
         /\ (f_pc = "done" /\ f_log[i].attempt = f_retries - 1) =>
               /\ Len(f_log) = i + 1
               /\ f_outcome.kind = "ScrapingError: Failed to fetch"
    /\ C9_Example

\* 500, 500, 200 with retries = 3
C9_Witness ==
    /\ f_pc = "done" /\ f_retries = 3
    /\ f_script[1].kind = "500" /\ f_script[2].kind = "500"
    /\ f_script[3].kind = "200"
    /\ f_outcome.kind = "returned"
    /\ SleptSecs = <<1, 2>>

(***************************************************************************)
(* C10: a timeout or a connection error on attempt index k is followed by  *)
(* a wait of 2^k seconds and a retry while attempts remain, and the error  *)
(* is carried forward as the last error, so that it is the cause reported  *)
(* if the budget is then exhausted.                                        *)
(***************************************************************************)
\* the requests that ended in an exception the handlers record
Recorded == RequestsAt({"timeout", "connerr", "403"})

\* C10: while attempts remain a timeout or connection error on attempt k is
\* followed by a sleep of 2^k and a retry; the latest error is the cause reported
C10_ErrorBackoff ==
    /\ \A i \in RequestsAt({"timeout", "connerr"}) :
         f_log[i].attempt < f_retries - 1 =>
            /\ ThenSleeps(i, 2 ^ f_log[i].attempt)
            /\ f_pc = "done" => ThenRetries(i)
    /\ \A i \in RequestsAt({"timeout", "connerr"}) :
         (\A j \in Recorded : j <= i) =>
            /\ f_last_error = [kind |-> f_log[i].what, attempt |-> f_log[i].attempt]
            /\ (f_pc = "done" /\ f_outcome.kind = "ScrapingError: Failed to fetch")
                  => f_outcome.cause = [kind |-> f_log[i].what,
                                        attempt |-> f_log[i].attempt]

\* a connection error, then a timeout on the last attempt: the timeout is
\* the cause reported
C10_Witness ==
    /\ f_pc = "done" /\ f_retries = 2
    /\ f_outcome.kind = "ScrapingError: Failed to fetch"
    /\ f_outcome.cause = [kind |-> "timeout", attempt |-> 1]
    /\ f_script[1].kind = "connerr"
    /\ SleptSecs = <<1, 2>>

(***************************************************************************)
(* C11: a static fetch answered 404 fails at once with an error for that   *)
(* URL: no sleep, no further request, the rest of the retry budget unused, *)
(* whatever attempt index the 404 arrives on.                              *)
(***************************************************************************)
AllKinds == {"200", "429", "500", "404", "403", "timeout", "connerr"}

C11_NotFoundFailsFast ==
    \A i \in RequestsAt({"404"}) :
        /\ i = Len(f_log)
        /\ f_pc = "done"
        /\ f_outcome.kind = "ScrapingError: Page not found"
        /\ f_outcome.attempt = f_log[i].attempt
        /\ Cardinality(RequestsAt(AllKinds)) = f_log[i].attempt + 1

\* a 500 and then a 404 with a budget of 3: two requests, one sleep
C11_Witness ==
    /\ f_pc = "done" /\ f_retries = 3
    /\ f_outcome.kind = "ScrapingError: Page not found"
    /\ f_outcome.attempt = 1
    /\ SleptSecs = <<1>>

(***************************************************************************)
(* C12 (as stated): a fetch that exhausts its budget of retries attempts   *)
(* fails with the ScrapingError that carries the last underlying cause,    *)
(* the failure of the most recent attempt, whatever kind of failure used   *)
(* the budget up (timeout, connection error, 5xx, rate limit).             *)
(***************************************************************************)
C12_LastCause ==
    ( /\ f_pc = "done"
      /\ f_outcome.kind = "ScrapingError: Failed to fetch"
      /\ f_retries >= 1 )
    => /\ f_log # <<>>
       /\ LET last == SetMax(RequestsAt(AllKinds))
          IN  f_outcome.cause = [kind |-> f_log[last].what,
                                 attempt |-> f_log[last].attempt]

(***************************************************************************)
(* C13: with a fetch_func supplied, fetch_page and _fetch_html call it     *)
(* exactly once with the URL and hand back what it returns; no backend is  *)
(* used, nothing sleeps or retries, and an exception it raises propagates  *)
(* after that single call.                                                 *)
(***************************************************************************)
C13_OverrideOnly ==
    (p_entry # "idle" /\ p_fetch_func # "None") =>
        /\ f_log = <<>>
        /\ j_open = {}
        /\ f_attempt = 0
        /\ f_pc \in {"dispatch", "done"}
        /\ f_pc = "dispatch" => p_calls = <<>>
        /\ f_pc = "done" =>
              /\ p_calls = <<Call("fetch_func(url)")>>
              /\ f_outcome.kind = IF p_fetch_func = "returns"
                                  THEN "returned fetch_func result"
                                  ELSE "fetch_func exception"

\* fetch_page with JavaScript configured and an override that raises
C13_Witness ==
    /\ p_entry = "fetch_page" /\ p_javascript /\ f_retries = 3
    /\ p_fetch_func = "raises"
    /\ f_pc = "done"
    /\ f_outcome.kind = "fetch_func exception"
    /\ Len(p_calls) = 1

(***************************************************************************)
(* C14: JavaScript rendering asked for and playwright not importable: the  *)
(* fetch fails before any attempt, no browser launched, no sleep, the      *)
(* retry loop never entered, for every value of retries.                   *)
(***************************************************************************)
C14_MissingDependency ==
    ( /\ p_entry = "fetch_page" /\ p_fetch_func = "None"
      /\ p_javascript /\ ~j_installed ) =>
        /\ f_log = <<>>
        /\ j_open = {}
        /\ f_attempt = 0
        /\ f_pc \in {"dispatch", "js_import", "done"}
        /\ f_pc = "done" =>
              f_outcome.kind = "ScrapingError: JavaScript rendering requires playwright"

C14_Witness ==
    /\ p_entry = "fetch_page" /\ p_fetch_func = "None"
    /\ p_javascript /\ ~j_installed /\ f_retries = 3
    /\ f_pc = "done"
    /\ f_outcome.kind = "ScrapingError: JavaScript rendering requires playwright"

(***************************************************************************)
(* C16: in the rendering backend the browser launched for an attempt is    *)
(* closed before that attempt ends, on the successful return, on a         *)
(* navigation timeout and on any other exception: at the start of each     *)
(* attempt and once the fetch has returned or raised no browser opened by  *)
(* this fetch is open, and within an attempt only that attempt's is.       *)
(***************************************************************************)
LaunchedAt(kinds) ==
    {i \in 1..Len(f_log) : f_log[i].ev = "launch" /\ f_log[i].what \in kinds}

C16_BrowserClosed ==
    /\ f_pc # "js_page" => j_open = {}
    /\ f_pc = "js_page" => j_open = {f_attempt}

\* a timeout, an exception of content(), then a success: three browsers
\* launched, none open after the return
C16_Witness ==
    /\ f_pc = "done" /\ f_outcome.kind = "returned" /\ f_outcome.attempt = 2
    /\ LaunchedAt({"goto_timeout"}) # {}
    /\ LaunchedAt({"content_error"}) # {}
    /\ Cardinality(LaunchedAt(JsOutcomes)) = 3
    /\ j_open = {}

(***************************************************************************)
(* C15 (as stated): the missing rendering dependency is an error kind of   *)
(* its own, distinct from the retry-exhaustion fetch error, and the caller *)
(* aborts the site on it: after the first URL that fails with it no        *)
(* further URL of the site is fetched.                                     *)
(***************************************************************************)
MissingFetches ==
    {i \in 1..Len(s_log) : /\ s_log[i].ev = "fetch"
                           /\ s_log[i].result = RenderingMissingError}

C15_AbortsSite ==
    \A i \in MissingFetches :
        /\ s_log[i].result.class # FetchExhaustedError.class
        /\ \A j \in (i + 1)..Len(s_log) : s_log[j].ev # "fetch"

(***************************************************************************)
(* C17: discover_pages_for_site returns a list in ascending lexicographic  *)
(* order of the URL strings without duplicates, whatever strategies are    *)
(* configured and however many of them yield the same URL.                 *)
(***************************************************************************)
StrictlyAscending(seq) ==
    \A i \in 1..(Len(seq) - 1) : LexLess(seq[i], seq[i + 1])

C17_SortedUnique ==
    d_pc = "done" =>
        /\ StrictlyAscending(d_result)
        /\ \A i, j \in 1..Len(d_result) : d_result[i] = d_result[j] => i = j
        /\ Range(d_result) = urls

\* all three strategies configured, one URL yielded by each of them and
\* twice by the sitemap, three URLs returned
C17_Witness ==
    /\ d_pc = "done"
    /\ pages.urls.present /\ pages.sitemap.present /\ pages.crawl.present
    /\ \E u \in d_yield.urls :
          /\ u \in Range(d_yield.crawl)
          /\ Cardinality({i \in 1..Len(d_yield.sitemap) : d_yield.sitemap[i] = u}) = 2
    /\ Len(d_result) = 3

(***************************************************************************)
(* C18: with none of urls, sitemap, crawl configured, discovery returns    *)
(* exactly [base_url] and fetches nothing.                                 *)
(***************************************************************************)
NoneConfigured ==
    /\ d_pc # "idle"
    /\ ~pages.urls.present /\ ~pages.sitemap.present /\ ~pages.crawl.present

C18_DefaultToBase ==
    NoneConfigured =>
        /\ d_fetches = <<>>
        /\ fetched = <<>>
        /\ d_pc # "raised"
        /\ d_pc = "done" => d_result = <<StrOfUrl(base_url)>>

C18_Witness ==
    /\ NoneConfigured
    /\ d_pc = "done"
    /\ Len(d_result) = 1

(***************************************************************************)
(* C19 (as stated): base_url is the fallback only of a site with no        *)
(* strategy configured: when a strategy is configured and every configured *)
(* strategy yields no URL, base_url is not added and the result is the     *)
(* empty list.                                                             *)
(***************************************************************************)
YieldedNothing ==
    d_yield.urls = {} /\ d_yield.sitemap = <<>> /\ d_yield.crawl = <<>>

C19_NoFallbackWhenConfigured ==
    (d_pc = "done" /\ ~NoneConfigured /\ YieldedNothing) => d_result = <<>>

(***************************************************************************)
(* C20: whatever fetches fail and whatever documents are malformed,        *)
(* discover_pages_for_site returns normally, and the result holds every    *)
(* URL that any configured strategy yielded: a failing strategy takes      *)
(* nothing away from the others.                                           *)
(***************************************************************************)
C20_StrategiesIndependent ==
    /\ d_pc # "raised"
    /\ d_pc # "idle" => c_pc # "raised"
    /\ d_pc = "done" =>
          (d_yield.urls \cup Range(d_yield.sitemap) \cup Range(d_yield.crawl))
              \subseteq Range(d_result)

\* the sitemap cannot be fetched and a glob's parent page holds a link that
\* urlparse rejects, yet the URL list's and the crawl's URLs are returned
C20_Witness ==
    /\ d_pc = "done"
    /\ pages.urls.present /\ pages.sitemap.present /\ pages.crawl.present
    /\ SmFetchRaises(sm_web, SmTop)
    /\ \E u \in DOMAIN web : GlobRaises(web[u]) /\ u \in Range(d_fetches)
    /\ d_yield.urls # {}
    /\ d_yield.crawl # <<>>
    /\ Cardinality(Range(d_result)) >= 2

(***************************************************************************)
(* Sitemap resolution as the caller of discover_pages_for_site sees it.    *)
(***************************************************************************)
\* discover_from_sitemap has returned or raised
SitemapSettled == d_pc \in {"crawl", "crawling", "return", "done", "raised"}

TopDoc == sm_web[SmTop]

\* the child sitemaps the top-level index lists, blank entries left out
TopRefs ==
    SelectSeq([i \in 1..Len(TopDoc.locs) |-> LocText(TopDoc.locs[i])],
              LAMBDA h : StrOfHref(h) # <<>>)

TopIsIndex == SmTop \in DOMAIN sm_web /\ TopDoc.xml = "index"

ChildDoc(h) == IF AsUrl(h) \in DOMAIN sm_web THEN sm_web[AsUrl(h)] ELSE Unreachable

\* a url set all of whose <loc> texts urlparse accepts
CleanUrlSet(doc) ==
    /\ doc.xml = "urlset"
    /\ \A i \in 1..Len(doc.locs) : ~UrlparseRaises(LocText(doc.locs[i]))

\* the <loc> texts of a url set that are non-empty and not on another host
KeptLocs(doc) ==
    LET texts == [i \in 1..Len(doc.locs) |-> LocText(doc.locs[i])]
        kept == SelectSeq(texts, LAMBDA h : StrOfHref(h) # <<>>
                                            /\ h.netloc \in {"", BaseNetloc})
    IN  [i \in 1..Len(kept) |-> StrOfHref(kept[i])]

\* what a child that is a url set, malformed or unreachable adds to the result
LeafUrls(doc) == IF doc.fetch = "ok" /\ doc.xml = "urlset" THEN KeptLocs(doc) ELSE <<>>

RECURSIVE ConcatLeaves(_)
ConcatLeaves(refs) ==
    IF refs = <<>> THEN <<>>
    ELSE LeafUrls(ChildDoc(Head(refs))) \o ConcatLeaves(Tail(refs))

(***************************************************************************)
(* C21: a sitemap whose XML is malformed yields the empty list and nothing *)
(* is raised to the caller; in an index whose children are url sets or     *)
(* malformed documents, the malformed children add nothing and the result  *)
(* is the URLs of the url sets, in index order.                            *)
(***************************************************************************)
C21_MalformedIsEmpty ==
    /\ d_pc # "raised"
    /\ (SitemapSettled /\ TopDoc = Malformed) => d_yield.sitemap = <<>>
    /\ (/\ SitemapSettled /\ TopIsIndex
        /\ \A h \in Range(TopRefs) :
              \/ ChildDoc(h) = Malformed
              \/ CleanUrlSet(ChildDoc(h)))
         => d_yield.sitemap = ConcatLeaves(TopRefs)

\* an index lists a url set, a malformed child and the url set again: the
\* url set's two URLs come back twice
C21_Witness ==
    /\ d_pc = "done" /\ TopIsIndex /\ Len(TopRefs) = 3
    /\ ChildDoc(TopRefs[2]) = Malformed
    /\ ChildDoc(TopRefs[1]) = UrlSet(MixedLocs)
    /\ d_yield.sitemap = <<StrOfHref(AbsA), StrOfHref(AbsAB),
                           StrOfHref(AbsA), StrOfHref(AbsAB)>>

(***************************************************************************)
(* C22: in an index whose children are url sets or cannot be fetched,      *)
(* every listed child is fetched once per listing, in index order, also    *)
(* after a child whose fetch failed, and the result is the concatenation   *)
(* in index order of the URLs of the children that were fetched.           *)
(***************************************************************************)
C22_FailedChildSkipped ==
    (/\ SitemapSettled /\ TopIsIndex
     /\ \A h \in Range(TopRefs) :
           \/ ChildDoc(h) = Unreachable
           \/ CleanUrlSet(ChildDoc(h)))
      => /\ d_pc # "raised"
         /\ d_fetches = <<SmTop>> \o [i \in 1..Len(TopRefs) |-> AsUrl(TopRefs[i])]
         /\ d_yield.sitemap = ConcatLeaves(TopRefs)

\* the second of three listed children cannot be fetched; the first and the
\* third are fetched and their URLs returned
C22_Witness ==
    /\ d_pc = "done" /\ TopIsIndex /\ Len(TopRefs) = 3
    /\ ChildDoc(TopRefs[2]) = Unreachable
    /\ ChildDoc(TopRefs[3]) = Plain(UrlSet(MixedLocs))
    /\ Len(d_fetches) = 4
    /\ Len(d_yield.sitemap) = 4

(***************************************************************************)
(* C23: a url set resolves to exactly its <loc> texts, trimmed, that are   *)
(* non-empty and not on another host, in document order, whether it is the *)
(* configured sitemap or the children of the configured index.             *)
(***************************************************************************)
C23_ExactLocs ==
    /\ (SitemapSettled /\ SmTop \in DOMAIN sm_web
        /\ TopDoc.fetch = "ok" /\ TopDoc.xml = "urlset")
         => d_yield.sitemap = KeptLocs(TopDoc)
    /\ (/\ SitemapSettled /\ TopIsIndex
        /\ \A h \in Range(TopRefs) :
              ChildDoc(h).fetch = "ok" /\ ChildDoc(h).xml = "urlset")
         => d_yield.sitemap = ConcatLeaves(TopRefs)

\* the site w with every parsed document carrying the namespace, or none
WithNs(w, b) ==
    [u \in DOMAIN w |->
        IF w[u].xml \in {"urlset", "index"} THEN [w[u] EXCEPT !.ns = b] ELSE w[u]]

(***************************************************************************)
(* C24: the sitemaps of a site resolve to the same list whether their      *)
(* documents carry the sitemaps.org namespace or not; a namespaced index   *)
(* that lists one child holding https://example.com/a resolves to exactly  *)
(* that URL.                                                               *)
(***************************************************************************)
C24_NamespaceIrrelevant ==
    SitemapSettled =>
        /\ d_yield.sitemap = discover_from_sitemap(HSitemap, WithNs(sm_web, TRUE)).urls
        /\ d_yield.sitemap = discover_from_sitemap(HSitemap, WithNs(sm_web, FALSE)).urls
        /\ (/\ TopDoc = Index(Locs(<<HChild2>>))
            /\ ChildDoc(HChild2) = UrlSet(Locs(<<AbsA>>)))
             => d_yield.sitemap = <<StrOfHref(AbsA)>>

\* an index without the namespace lists a url set with it and one without,
\* and the URLs of both are returned
C24_Witness ==
    /\ d_pc = "done"
    /\ TopDoc = Plain(Index(Locs(<<HChild1, HChild2>>)))
    /\ ChildDoc(HChild1) = UrlSet(MixedLocs)
    /\ ChildDoc(HChild2) = Plain(UrlSet(MixedLocs))
    /\ Len(d_yield.sitemap) = 4

\* the links of a fetched parent page that are on base_url's host and whose
\* path matches the whole pattern
MatchingLinks(doc, pattern) ==
    { StrOfUrl(normalize_url(doc[i], base_url)) :
        i \in { j \in 1..Len(doc) :
                  /\ normalize_url(doc[j], base_url).netloc = BaseNetloc
                  /\ matches_pattern(normalize_url(doc[j], base_url).path, pattern) } }

\* one entry of pages["urls"] has been processed
EntryDone == InUrls /\ d_k' = d_k + 1

(***************************************************************************)
(* C25: an entry of the URL list without "*" adds normalize(entry,         *)
(* base_url) and nothing else and fetches nothing; an entry with "*"       *)
(* fetches its parent page once and adds exactly that page's links on      *)
(* base_url's host whose path matches the pattern, or nothing when the     *)
(* fetch failed, and the next entry is processed either way.  The entries  *)
(* "/" and "/a" yield https://example.com/ and https://example.com/a.      *)
(***************************************************************************)
C25_UrlListExpansion ==
    /\ [][EntryDone =>
            LET parent_url == normalize_url(ParentHref(Entry), base_url)
            IN  /\ d_pc' = "urls"
                /\ ~HasStar(Entry) =>
                      /\ d_fetches' = d_fetches
                      /\ u_result' = u_result
                            \cup {StrOfUrl(normalize_url(Entry, base_url))}
                /\ HasStar(Entry) =>
                      /\ d_fetches' = Append(d_fetches, parent_url)
                      /\ u_result' = u_result \cup
                            (IF u_fetch'[d_k] = "ok"
                             THEN MatchingLinks(web'[parent_url], StrOfHref(Entry))
                             ELSE {})]_vars
    /\ [](d_pc = "done" /\ pages.urls = Present(<<HRoot, HA>>)
            => d_yield.urls = {StrOfUrl(normalize_url(HRoot, base_url)),
                               StrOfUrl(normalize_url(HA, base_url))})

(***************************************************************************)
(* C26: in a crawl the first page fetch is preceded by no sleep, and every *)
(* later fetch is preceded by exactly one sleep, of the configured delay.  *)
(***************************************************************************)
C26_DelayBetweenFetches ==
    /\ Len(slept) = Len(fetched)
    /\ \A i \in 1..Len(slept) : slept[i] = IF i = 1 THEN <<>> ELSE <<delay>>

\* a finished crawl that fetched three pages with a delay of 2 configured
C26_Witness ==
    /\ c_pc = "done"
    /\ delay = 2
    /\ Len(fetched) >= 3
    /\ slept[3] = <<2>>

(***************************************************************************)
(* C27: when fetch_func is supplied to the crawl, no sleep is made before  *)
(* any fetch, whatever the configured delay.                               *)
(***************************************************************************)
C27_NoSleepWithOverride ==
    c_fetch_func => \A i \in 1..Len(slept) : slept[i] = <<>>

\* the string t starts with a scheme, "://" and a non-empty network location
HasSchemeAndNetloc(t) ==
    \E i \in 2..(Len(t) - 3) :
        /\ \A j \in 1..(i - 1) : t[j] \notin {"#", "*", ".", "/", "1", "2", ":", "["}
        /\ t[i] = ":" /\ t[i + 1] = "/" /\ t[i + 2] = "/"
        /\ t[i + 3] \notin {"/", "#"}

(***************************************************************************)
(* C28: every URL in the list discover_pages_for_site returns has a scheme *)
(* and a network location, whichever strategy yielded it.                  *)
(***************************************************************************)
C28_AllAbsolute ==
    d_pc = "done" => \A i \in 1..Len(d_result) : HasSchemeAndNetloc(d_result[i])

(***************************************************************************)
(* C29: a document that the sitemap resolver or the crawler asks for       *)
(* through _fetch_html, whose first answer is a 5xx, a 429 or a timeout    *)
(* and whose second answer, within the retry budget, is a 200, is          *)
(* returned to the resolver or crawler.                                    *)
(***************************************************************************)
C29_DiscoveryFetchRetries ==
    (/\ f_pc = "done"
     /\ p_entry = "_fetch_html" /\ p_fetch_func = "None"
     /\ f_retries >= 2
     /\ f_script[1].kind \in {"500", "429", "timeout"}
     /\ f_script[2].kind = "200")
      => f_outcome.kind = "returned"

(***************************************************************************)
(* The graph of sitemap indexes of the site.                               *)
(***************************************************************************)
\* the sitemaps that the index served at u lists
IndexRefs(u) ==
    IF u \in DOMAIN sm_web /\ sm_web[u].fetch = "ok" /\ sm_web[u].xml = "index"
    THEN { AsUrl(LocText(sm_web[u].locs[i])) :
             i \in { j \in 1..Len(sm_web[u].locs) :
                       StrOfHref(LocText(sm_web[u].locs[j])) # <<>> } }
    ELSE {}

RECURSIVE Within(_, _)
\* the sitemaps reached from those of U by following at most n listings
Within(U, n) ==
    IF n = 0 THEN U
    ELSE Within(U \cup UNION {IndexRefs(u) : u \in U}, n - 1)

Below(u) == Within(IndexRefs(u), Cardinality(SitemapUrls))

Reachable == {SmTop} \cup Below(SmTop)

\* some reachable index lists itself or an index above it
Cyclic == \E u \in Reachable : u \in Below(u)

\* every reachable sitemap is an index or a url set whose texts all parse
AllResolvable ==
    \A u \in Reachable :
        /\ u \in DOMAIN sm_web /\ sm_web[u].fetch = "ok"
        /\ sm_web[u].xml = "index" \/ CleanUrlSet(sm_web[u])

RECURSIVE Flatten(_)
\* the URLs of the url sets below the sitemap u of an acyclic site, depth first
Flatten(u) ==
    LET doc == sm_web[u]
        refs == SelectSeq([i \in 1..Len(doc.locs) |-> LocText(doc.locs[i])],
                          LAMBDA h : StrOfHref(h) # <<>>)
        F[i \in 0..Len(refs)] ==
            IF i = 0 THEN <<>> ELSE F[i - 1] \o Flatten(AsUrl(refs[i]))
    IN  IF doc.xml = "index" THEN F[Len(refs)] ELSE KeptLocs(doc)

Count(seq, x) == Cardinality({i \in 1..Len(seq) : seq[i] = x})

\* C30 as stated: on an acyclic graph of resolvable sitemaps the URLs of all
\* reachable url sets are returned, and the resolution of a cyclic index
\* never completes
C30_Original ==
    /\ (SitemapSettled /\ ~Cyclic /\ AllResolvable)
          => d_pc # "raised" /\ d_yield.sitemap = Flatten(SmTop)
    /\ Cyclic => ~SitemapSettled

C30_Bounded ==
    /\ d_pc # "raised"
    /\ (SitemapSettled /\ ~Cyclic /\ AllResolvable)
          => d_yield.sitemap = Flatten(SmTop)
    /\ (SitemapSettled /\ Cyclic)
          => \E u \in Reachable : Count(d_fetches, u) >= 2
    /\ (SitemapSettled /\ TopDoc = Index(Locs(<<HTop>>)))
          => /\ d_fetches = [i \in 1..(RecursionLimit + 1) |-> SmTop]
             /\ d_yield.sitemap = <<>>
    /\ (SitemapSettled /\ TopIsIndex)
          => \A h \in Range(TopRefs) :
                CleanUrlSet(ChildDoc(h)) /\ ChildDoc(h).fetch = "ok"
                   => Range(KeptLocs(ChildDoc(h))) \subseteq Range(d_yield.sitemap)

(***************************************************************************)
(* C30: sitemap-index resolution keeps no record of the sitemaps it has    *)
(* fetched.  On an acyclic graph of indexes and url sets no deeper than    *)
(* the interpreter's recursion limit it returns the URLs of every          *)
(* reachable url set; an index that lists itself or an index above it is   *)
(* fetched again and again until the recursion limit is hit, the           *)
(* RecursionError is caught like any failure of a child, and resolution    *)
(* completes normally, the other children still contributing.              *)
(***************************************************************************)
C30_RecursionBounded == []C30_Bounded /\ <>(d_pc = "done")

\* an index lists a cyclic index, a url set and the cyclic index again: the
\* top-level sitemap is fetched repeatedly and the url set's URL is returned
C30_Witness ==
    /\ d_pc = "done" /\ Cyclic
    /\ Len(TopRefs) = 3
    /\ ChildDoc(TopRefs[1]) = Index(Locs(<<HTop>>))
    /\ ChildDoc(TopRefs[2]) = UrlSet(Locs(<<AbsA>>))
    /\ Count(d_fetches, SmTop) >= RecursionLimit
    /\ StrOfHref(AbsA) \in Range(d_yield.sitemap)

(***************************************************************************)
(* C31: a second run of the crawl with the same arguments on a site that   *)
(* answers every fetch as before returns the list the first run returned:  *)
(* nothing the first run visited is held against the second.               *)
(***************************************************************************)
C31_FreshPerRun ==
    (c_pc = "done" /\ prev.runs = 1) => result = prev.result

\* the second run has returned three URLs, one of them behind a fetch that
\* failed both times
C31_Witness ==
    /\ c_pc = "done" /\ prev.runs = 1
    /\ Len(result) = 3
    /\ \E u \in DOMAIN raised : raised[u] = "fetch"

(***************************************************************************)
(* C32: every call of strip_tracking_params returns without raising; on a  *)
(* URL that parses, what it returns has the parameters whose lower-cased   *)
(* name is a tracking name removed and every other parameter kept, in the  *)
(* order they had, the same fragment and base, and no '?' when no          *)
(* parameter is left; a malformed URL is returned as it was; and a second  *)
(* call on what the first returned returns the same URL again.             *)
(***************************************************************************)
\* the names of ParamNames that the denylist covers, whatever their case
TrackedNames == {N_utm_source, N_UTM_SOURCE, N_fbclid, N_Gclid}

C32_StripTracking ==
    /\ \A k \in 1..Len(t_outs) :
         LET u == StripArg(k)
             o == t_outs[k]
         IN  /\ ~o.raises
             /\ o.url.frag = u.frag
             /\ o.url.base = u.base
             /\ u.base = BadBase => o.url = u
             /\ u.base # BadBase =>
                   /\ o.url.query.params =
                        SelectSeq(u.query.params, LAMBDA p : p.name \notin TrackedNames)
                   /\ o.url.query.present = (o.url.query.params # <<>>)
    /\ Len(t_outs) = 2 => t_outs[2] = t_outs[1]

\* "page?UTM_SOURCE=1&id=1#section" was stripped twice
C32_Witness ==
    /\ Len(t_outs) = 2
    /\ t_url = [base |-> PageBase,
                query |-> Query(<<[name |-> N_UTM_SOURCE, value |-> "1"],
                                  [name |-> N_id, value |-> "1"]>>),
                frag |-> [present |-> TRUE, text |-> "section"]]
    /\ t_outs[1].url.query = Query(<<[name |-> N_id, value |-> "1"]>>)

(***************************************************************************)
(* C33: a call of fetch_page that reaches _fetch_static or                 *)
(* _fetch_with_javascript makes at most `retries` requests or navigation   *)
(* attempts and ends, returning or raising, whatever the server answers;   *)
(* with retries = 0 it makes none and raises ScrapingError.                *)
(***************************************************************************)
\* the requests and navigation attempts made so far
Attempts == SelectSeq(f_log, LAMBDA e : e.ev = "request")

BackendCall == p_entry = "fetch_page" /\ p_fetch_func = "None"

C33_AtMostRetries ==
    BackendCall =>
        /\ Len(Attempts) <= f_retries
        /\ (f_pc = "done" /\ f_retries = 0) =>
              /\ Attempts = <<>>
              /\ f_outcome.kind \in {"ScrapingError: Failed to fetch",
                                     "ScrapingError: Failed to render",
                                     "ScrapingError: JavaScript rendering requires playwright"}

C33_BoundedFetch == []C33_AtMostRetries /\ <>(f_pc = "done")

\* the static backend was answered 429 on every request of its budget, the
\* rendering backend timed out on every navigation of its budget
C33_Witness ==
    /\ BackendCall /\ f_pc = "done" /\ f_retries = MaxRetries
    /\ Len(Attempts) = MaxRetries
    /\ \A i \in 1..MaxRetries : Attempts[i].what \in {"429", "goto_timeout"}
    /\ f_outcome.kind \in {"ScrapingError: Failed to fetch", "ScrapingError: Failed to render"}

(***************************************************************************)
(* C34: within one crawl no URL is fetched twice, and the fetches are at   *)
(* most as many as the URLs in discovered, although the queue may hold a   *)
(* URL several times.                                                      *)
(***************************************************************************)
C34_FetchedOnce ==
    /\ \A i, j \in 1..Len(fetched) : fetched[i].url = fetched[j].url => i = j
    /\ Len(fetched) <= Len(discovered)

\* two pages linked to a URL before it was dequeued: it has been fetched on
\* its first dequeue and its second entry is still in the queue
C34_Witness ==
    /\ c_pc = "loop"
    /\ Len(fetched) >= 2
    /\ \E i \in 1..Len(queue) : queue[i].url = fetched[Len(fetched)].url

(***************************************************************************)
(* C35: discover_from_crawl returns, whatever the links of the site        *)
(* (cycles and self-links included) and whatever max_depth and max_pages:  *)
(* no page is expanded twice, and when it returns the queue is empty or    *)
(* the page budget is used up.                                             *)
(***************************************************************************)
C35_Returned ==
    /\ \A i, j \in 1..Len(discovered) : discovered[i] = discovered[j] => i = j
    /\ c_pc = "done" => (queue = <<>> \/ Len(discovered) >= max_pages)

C35_Terminates == []C35_Returned /\ <>(c_pc = "done")

\* the crawl has returned with an empty queue and budget to spare from a
\* site where a page links to itself and two pages link to each other
C35_Witness ==
    /\ c_pc = "done" /\ queue = <<>> /\ Len(result) < max_pages
    /\ \E u \in DOMAIN web : u \in LinksOf(u)
    /\ \E u, v \in DOMAIN web : u # v /\ v \in LinksOf(u) /\ u \in LinksOf(v)

(***************************************************************************)
(* C36: when the crawl has returned fewer than max_pages URLs and no fetch *)
(* failed, the result holds every URL that passes the filter and is at     *)
(* most max_depth links from the seed along pages that pass the filter,    *)
(* and each was dequeued first at its least such distance.                 *)
(***************************************************************************)
\* the URLs at most k links away from the seed, through pages that pass
\* the filter
RECURSIVE PassingWithin(_)
PassingWithin(k) ==
    IF k = 0 THEN {start_url}
    ELSE LET R == PassingWithin(k - 1)
         IN  R \cup UNION {LinksOf(u) : u \in {v \in R : Passes(v.path)}}

\* the least such distance of a URL that has one within max_depth
Distance(u) == CHOOSE k \in 0..max_depth :
                  /\ u \in PassingWithin(k)
                  /\ \A j \in 0..(k - 1) : u \notin PassingWithin(j)

NoFetchFailed == \A u \in DOMAIN raised : raised[u] \notin {"fetch", "parse"}

C36_Complete ==
    (c_pc = "done" /\ Len(result) < max_pages /\ NoFetchFailed) =>
        /\ \A u \in PassingWithin(max_depth) :
              Passes(u.path) => \E i \in 1..Len(result) : result[i] = u
        /\ \A i \in 1..Len(result) :
              result[i] \in PassingWithin(max_depth) =>
                  discDepth[i] = Distance(result[i])

\* the same when, besides, no link loop was cut short by a malformed href
C36_CompleteUnlessCut ==
    raised = <<>> => C36_Complete

(***************************************************************************)
(* C37: the attempt with index retries - 1 is not followed by a sleep,     *)
(* whether it failed by a connection error, a timeout or a 5xx answer (in  *)
(* the rendering backend: a navigation timeout or another error), so a     *)
(* fetch whose every attempt failed that way has slept                     *)
(* 2^0 + ... + 2^(retries-2) seconds in all.                               *)
(***************************************************************************)
BackoffKinds == {"connerr", "timeout", "500", "goto_timeout", "launch_error",
                 "new_page_error", "goto_error", "content_error"}

RECURSIVE SumSeq(_)
SumSeq(secs) == IF secs = <<>> THEN 0 ELSE Head(secs) + SumSeq(Tail(secs))

C37_NoSleepAfterLast ==
    BackendCall =>
        /\ \A i \in RequestsAt(BackoffKinds) :
              f_log[i].attempt = f_retries - 1 =>
                  ~(Len(f_log) > i /\ f_log[i + 1].ev = "sleep")
        /\ ( /\ f_pc = "done" /\ f_retries >= 1
             /\ Cardinality(RequestsAt(BackoffKinds)) = f_retries )
           => SumSeq(SleptSecs) = 2 ^ (f_retries - 1) - 1

(***************************************************************************)
(* C38: a client-error answer other than 404 and 429 (403 here) ends the   *)
(* static fetch: no sleep and no request follows it, and the fetch fails.  *)
(***************************************************************************)
C38_ClientErrorFailsFast ==
    \A i \in RequestsAt({"403"}) :
        /\ Len(f_log) = i
        /\ f_pc = "done" => f_outcome.kind # "returned"

(***************************************************************************)
(* C39: in the loop of _scrape_site an exception on one URL, a fetch error *)
(* or any other, never leaves the loop: every URL the loop has taken up is *)
(* counted as scraped or as failed and the loop goes on to the next; when  *)
(* the function has returned, scraped + failed is the number of discovered *)
(* URLs; changed <= scraped; and the delay is slept before every URL but   *)
(* the first.                                                              *)
(***************************************************************************)
\* the URLs (by index) the loop has taken up
TakenUp == {s_log[j].i : j \in 1..Len(s_log)}

DelaysBetween ==
    \A j \in 1..Len(s_log) :
        s_log[j].ev # "sleep" =>
            IF s_log[j].i = 0 THEN j = 1
            ELSE /\ j > 1
                 /\ s_log[j - 1] = ScrapeSleep(s_log[j].i)
                 /\ j > 2 => s_log[j - 2].ev # "sleep"

C39_SkipsFailedUrl ==
    /\ s_pc # "raised"
    /\ scraped_count + failed_count = Cardinality(TakenUp)
    /\ changed_count <= scraped_count
    /\ DelaysBetween
    /\ s_pc = "done" =>
          scraped_count + failed_count =
              IF s_discovery.raises THEN 0 ELSE Len(s_discovery.urls)

\* the same for lists of URLs that urlparse accepts
C39_UnlessMalformed ==
    (\A k \in 1..Len(s_discovery.urls) : ~PathRaises(s_discovery.urls[k]))
        => C39_SkipsFailedUrl

====
